---- MODULE Spec2Model ----
(***************************************************************************)
(* Model of the client side of property-investment-report-api:             *)
(* src/app/page.jsx.  A report object received from the generation proxy   *)
(* is normalised by mapFromSchema, defaulted by withDefaults and turned    *)
(* into the investment metrics the Report component renders.               *)
(*                                                                         *)
(* JavaScript values are records tagged by k:                              *)
(*   "undefined", "null", "NaN", "Infinity", "-Infinity",                  *)
(*   "num" (a finite number, the reduced fraction n/d with d > 0),         *)
(*   "str", "arr" (items: a sequence), "obj" (the object's own fields).    *)
(* Finite numbers are exact rationals: the rounding of IEEE doubles is not *)
(* modelled, and neither is the sign of zero (x/0 takes the sign of x).    *)
(* Math.pow is the one operation that rounds, see MathPow.                 *)
(***************************************************************************)
EXTENDS Integers, Sequences, FiniteSets, TLC

----------------------------------------------------------------------------
(* JavaScript values *)

Undef == [k |-> "undefined"]
Null == [k |-> "null"]
NaN == [k |-> "NaN"]
PosInf == [k |-> "Infinity"]
NegInf == [k |-> "-Infinity"]
Str(s) == [k |-> "str", s |-> s]
Arr(items) == [k |-> "arr", items |-> items]

Abs(i) == IF i < 0 THEN -i ELSE i

RECURSIVE GCD(_, _)
GCD(a, b) == IF b = 0 THEN a ELSE GCD(b, a % b)

\* The finite number n/d (d # 0), reduced and with a positive denominator.
Rat(n, d) ==
    LET g == GCD(Abs(n), Abs(d))
        s == IF d < 0 THEN -1 ELSE 1
    IN  [k |-> "num", n |-> s * (n \div g), d |-> s * (d \div g)]

Num(i) == [k |-> "num", n |-> i, d |-> 1]

IsNullish(v) == v.k \in {"undefined", "null"}

\* typeof v === "number": NaN and the infinities are numbers too.
IsNumberType(v) == v.k \in {"num", "NaN", "Infinity", "-Infinity"}

\* Number.isFinite(v)
IsFinite(v) == v.k = "num"

\* ToBoolean: 0, NaN, null, undefined and "" are falsy.
Truthy(v) ==
    CASE v.k \in {"undefined", "null", "NaN"} -> FALSE
      [] v.k = "num" -> v.n # 0
      [] v.k = "str" -> v.s # ""
      [] OTHER -> TRUE

\* a ?? b
Coalesce(a, b) == IF IsNullish(a) THEN b ELSE a

\* a || b
OrElse(a, b) == IF Truthy(a) THEN a ELSE b

\* obj?.f : undefined when obj is null or undefined.
OptGet(obj, f) == IF IsNullish(obj) THEN Undef ELSE obj[f]

\* ToNumber, applied by the arithmetic operators to their operands.
ToNumber(v) ==
    CASE v.k = "null" -> Num(0)
      [] IsNumberType(v) -> v
      [] OTHER -> NaN

Sign(v) ==
    CASE v.k = "Infinity" -> 1
      [] v.k = "-Infinity" -> -1
      [] OTHER -> IF v.n > 0 THEN 1 ELSE IF v.n < 0 THEN -1 ELSE 0

InfOfSign(s) == IF s < 0 THEN NegInf ELSE PosInf

Neg(v) ==
    LET a == ToNumber(v)
    IN  CASE a.k = "NaN" -> NaN
          [] a.k = "Infinity" -> NegInf
          [] a.k = "-Infinity" -> PosInf
          [] OTHER -> [k |-> "num", n |-> -a.n, d |-> a.d]

\* a + b
Add(x, y) ==
    LET a == ToNumber(x)
        b == ToNumber(y)
    IN  CASE a.k = "NaN" \/ b.k = "NaN" -> NaN
          [] a.k # "num" /\ b.k # "num" -> IF a.k = b.k THEN a ELSE NaN
          [] a.k # "num" -> a
          [] b.k # "num" -> b
          [] OTHER ->
               LET g == GCD(a.d, b.d)
               IN  Rat(a.n * (b.d \div g) + b.n * (a.d \div g), a.d * (b.d \div g))

\* a - b
Sub(x, y) == Add(x, Neg(y))

\* a * b
Mul(x, y) ==
    LET a == ToNumber(x)
        b == ToNumber(y)
    IN  CASE a.k = "NaN" \/ b.k = "NaN" -> NaN
          [] a.k # "num" \/ b.k # "num" ->
               IF Sign(a) * Sign(b) = 0 THEN NaN ELSE InfOfSign(Sign(a) * Sign(b))
          [] OTHER ->
               LET g1 == GCD(Abs(a.n), b.d)
                   g2 == GCD(Abs(b.n), a.d)
               IN  Rat((a.n \div g1) * (b.n \div g2), (a.d \div g2) * (b.d \div g1))

\* The largest integer of the exact fractions, 2^31 - 1.
MaxInt == 2147483647

\* The largest denominator of an exact quotient, and the decimals kept of a
\* quotient that is not exact.
ExactDen == 10^5
DivGrid == 10^4

\* i * j is in range.
Fits(i, j) == i = 0 \/ j = 0 \/ Abs(j) <= MaxInt \div Abs(i)

\* <<floor(i * j / c), (i * j) % c>> for i, j >= 0 and c > 0, by doubling,
\* without forming i * j.
RECURSIVE MulDivMod(_, _, _)
MulDivMod(i, j, c) ==
    IF j = 0 THEN <<0, 0>>
    ELSE LET h == MulDivMod(i, j \div 2, c)
             q2 == 2 * h[1] + (2 * h[2]) \div c
             r2 == (2 * h[2]) % c
         IN  IF j % 2 = 1 THEN <<q2 + (r2 + i) \div c, (r2 + i) % c>>
             ELSE <<q2, r2>>

\* i * j / c to the nearest multiple of 1 / DivGrid.
Quotient(i, j, c) ==
    LET qr == MulDivMod(i, j, c)
    IN  Rat(qr[1] * DivGrid + (MulDivMod(qr[2], 10 * DivGrid, c)[1] + 5) \div 10,
            DivGrid)

\* a / b : x/0 is NaN for x = 0 and an infinity otherwise.  The quotient of
\* two finite numbers is exact when its fraction is in range and its
\* denominator at most ExactDen, and rounded to DivGrid decimals when not.
Div(x, y) ==
    LET a == ToNumber(x)
        b == ToNumber(y)
    IN  CASE a.k = "NaN" \/ b.k = "NaN" -> NaN
          [] a.k # "num" /\ b.k # "num" -> NaN
          [] a.k # "num" -> InfOfSign(Sign(a) * (IF Sign(b) < 0 THEN -1 ELSE 1))
          [] b.k # "num" -> Num(0)
          [] b.n = 0 -> IF a.n = 0 THEN NaN ELSE InfOfSign(Sign(a))
          [] OTHER ->
               LET g1 == GCD(Abs(a.n), Abs(b.n))
                   g2 == GCD(a.d, b.d)
                   n1 == Abs(a.n) \div g1
                   n2 == b.d \div g2
                   d1 == a.d \div g2
                   d2 == Abs(b.n) \div g1
               IN  IF Fits(n1, n2) /\ Fits(d1, d2) /\ d1 * d2 <= ExactDen
                   THEN Rat(Sign(a) * Sign(b) * n1 * n2, d1 * d2)
                   ELSE IF Sign(a) * Sign(b) < 0
                        THEN Neg(Quotient(n1, n2, d1 * d2))
                        ELSE Quotient(n1, n2, d1 * d2)

----------------------------------------------------------------------------
(* Math.pow.  The double result is rounded to 53 bits; the model computes  *)
(* the power in fixed point, to eight decimals.                            *)

FixScale == 10^8
FixHalf == 10^4

\* floor(10^digits * rem / den) for 0 <= rem < den, by long division.
RECURSIVE LongDiv(_, _, _)
LongDiv(rem, den, digits) ==
    IF digits = 0 THEN 0
    ELSE ((rem * 10) \div den) * 10^(digits - 1)
         + LongDiv((rem * 10) % den, den, digits - 1)

\* a * b for fixed-point a, b in [0, 1], truncated.
FixMul(a, b) ==
    LET a1 == a \div FixHalf
        a0 == a % FixHalf
        b1 == b \div FixHalf
        b0 == b % FixHalf
    IN  a1 * b1 + (a1 * b0 + a0 * b1) \div FixHalf + (a0 * b0) \div FixScale

RECURSIVE FixPow(_, _)
FixPow(q, e) ==
    IF e = 0 THEN FixScale
    ELSE LET h == FixPow(q, e \div 2)
             s == FixMul(h, h)
         IN  IF e % 2 = 1 THEN FixMul(s, q) ELSE s

\* Math.pow(b, e) for a finite base b > 0 and an integer exponent e; the
\* calculator calls it with b = 1 + r and e = -n only.
MathPow(b, e) ==
    CASE b.k # "num" \/ e.k # "num" -> NaN
      [] e.n = 0 -> Num(1)
      [] b.n <= 0 \/ e.d # 1 -> NaN
      [] b.n = b.d -> Num(1)
      [] OTHER ->
           LET small == IF b.n < b.d THEN b ELSE Rat(b.d, b.n)
               q == LongDiv(small.n, small.d, 8)
               p == FixPow(q, Abs(e.n))
               t == Rat(p, FixScale)
           IN  IF (b.n < b.d) = (e.n > 0) THEN t ELSE Div(Num(1), t)

----------------------------------------------------------------------------
(* The report schemas the generation handlers send upstream, keyword for   *)
(* keyword.  "type" is always written as a set, "required" as a set, and a *)
(* "$ref" as the sequence of the segments of its JSON pointer (field ref). *)

\* PROPERTY_REPORT_JSON_SCHEMA of the handler that sends text.format.schema.
PROPERTY_REPORT_JSON_SCHEMA ==
    [type |-> {"object"},
     additionalProperties |-> FALSE,
     required |-> {"version", "reportMeta", "subject", "purchase",
         "propertySnapshot", "units", "rents", "rentComps",
         "operatingAssumptions", "financing", "totals", "sensitivity",
         "negotiation", "glossary"},
     properties |-> [version |-> [type |-> {"string"}, const |-> "1.0"],
         reportMeta |-> [type |-> {"object"},
             additionalProperties |-> FALSE,
             required |-> {"generatedAt", "targetCapPct", "currency", "locale"},
             properties |-> [generatedAt |-> [type |-> {"string"}, format |-> "date-time"],
                 targetCapPct |-> [type |-> {"number"}, minimum |-> 0],
                 currency |-> [type |-> {"string"}, minLength |-> 1],
                 locale |-> [type |-> {"string"}, minLength |-> 2]]],
         subject |-> [type |-> {"object"},
             additionalProperties |-> FALSE,
             required |-> {"address"},
             properties |-> [address |-> [type |-> {"string"}, minLength |-> 3],
                 unitLabel |-> [type |-> {"string"}],
                 city |-> [type |-> {"string"}],
                 state |-> [type |-> {"string"}],
                 zip |-> [type |-> {"string"}],
                 county |-> [type |-> {"string"}],
                 parcelId |-> [type |-> {"string"}],
                 mlsId |-> [type |-> {"string"}],
                 geo |-> [type |-> {"object"},
                     additionalProperties |-> FALSE,
                     properties |-> [lat |-> [type |-> {"number", "null"},
                             minimum |-> -90,
                             maximum |-> 90],
                         lng |-> [type |-> {"number", "null"},
                             minimum |-> -180,
                             maximum |-> 180]]]]],
         purchase |-> [type |-> {"object"},
             additionalProperties |-> FALSE,
             required |-> {"purchasePrice", "rehabBudget", "closingCostPct", "pointsPct",
                 "totalCost"},
             properties |-> [purchasePrice |-> [type |-> {"number", "null"}, minimum |-> 0],
                 rehabBudget |-> [type |-> {"number"}, minimum |-> 0],
                 closingCostPct |-> [type |-> {"number"}, minimum |-> 0],
                 pointsPct |-> [type |-> {"number"}, minimum |-> 0],
                 totalCost |-> [type |-> {"number", "null"}, minimum |-> 0]]],
         propertySnapshot |-> [type |-> {"object"},
             additionalProperties |-> FALSE,
             required |-> {"propertyType", "unitMix", "beds", "baths", "hoa", "taxes",
                 "insurance", "recentUpdates"},
             properties |-> [propertyType |-> [type |-> {"string"}],
                 unitMix |-> [type |-> {"string"}],
                 beds |-> [type |-> {"number"}, minimum |-> 0],
                 baths |-> [type |-> {"number"}, minimum |-> 0],
                 livingSqft |-> [type |-> {"number", "null"}, minimum |-> 0],
                 yearBuilt |-> [type |-> {"integer", "null"},
                     minimum |-> 1800,
                     maximum |-> 2100],
                 lotSizeSqft |-> [type |-> {"number", "null"}, minimum |-> 0],
                 hoa |-> [type |-> {"object"},
                     additionalProperties |-> FALSE,
                     required |-> {"hasHoa", "annual", "monthly", "name", "notes"},
                     properties |-> [hasHoa |-> [type |-> {"boolean"}],
                         annual |-> [type |-> {"number"}, minimum |-> 0],
                         monthly |-> [type |-> {"number"}, minimum |-> 0],
                         name |-> [type |-> {"string"}],
                         notes |-> [type |-> {"string"}]]],
                 taxes |-> [type |-> {"object"},
                     additionalProperties |-> FALSE,
                     required |-> {"annual", "year"},
                     properties |-> [annual |-> [type |-> {"number", "null"}, minimum |-> 0],
                         year |-> [type |-> {"integer", "null"},
                             minimum |-> 2000,
                             maximum |-> 2100]]],
                 insurance |-> [type |-> {"object"},
                     additionalProperties |-> FALSE,
                     required |-> {"dp3Annual", "notes"},
                     properties |-> [dp3Annual |-> [type |-> {"number", "null"}, minimum |-> 0],
                         notes |-> [type |-> {"string"}]]],
                 recentUpdates |-> [type |-> {"array"}, items |-> [type |-> {"string"}]]]],
         units |-> [type |-> {"array"},
             minItems |-> 1,
             items |-> [type |-> {"object"},
                 additionalProperties |-> FALSE,
                 required |-> {"name", "beds", "baths", "sqft", "modeledRentMonthly",
                     "leaseTermMonths", "notes"},
                 properties |-> [name |-> [type |-> {"string"}],
                     beds |-> [type |-> {"number"}, minimum |-> 0],
                     baths |-> [type |-> {"number"}, minimum |-> 0],
                     sqft |-> [type |-> {"number", "null"}, minimum |-> 0],
                     modeledRentMonthly |-> [type |-> {"number", "null"}, minimum |-> 0],
                     leaseTermMonths |-> [type |-> {"integer"}, minimum |-> 1],
                     notes |-> [type |-> {"string"}]]]],
         rents |-> [type |-> {"object"},
             additionalProperties |-> FALSE,
             required |-> {"benchmarkMedian", "qualityAdjustmentPct",
                 "modeledMarketRentMonthly", "grossScheduledRentMonthly"},
             properties |-> [benchmarkMedian |-> [type |-> {"number", "null"}, minimum |-> 0],
                 qualityAdjustmentPct |-> [type |-> {"number"}],
                 modeledMarketRentMonthly |-> [type |-> {"number", "null"}, minimum |-> 0],
                 grossScheduledRentMonthly |-> [type |-> {"number", "null"}, minimum |-> 0]]],
         rentComps |-> [type |-> {"array"},
             minItems |-> 5,
             items |-> [type |-> {"object"},
                 additionalProperties |-> FALSE,
                 required |-> {"address", "beds", "baths", "askingRent", "distanceMiles",
                     "conditionNote"},
                 properties |-> [address |-> [type |-> {"string"}, minLength |-> 3],
                     beds |-> [type |-> {"number"}, minimum |-> 0],
                     baths |-> [type |-> {"number"}, minimum |-> 0],
                     askingRent |-> [type |-> {"number", "null"}, minimum |-> 0],
                     distanceMiles |-> [type |-> {"number", "null"}, minimum |-> 0],
                     conditionNote |-> [type |-> {"string"}]]]],
         operatingAssumptions |-> [type |-> {"object"},
             additionalProperties |-> FALSE,
             required |-> {"vacancyPct", "maintenancePctOfGrossRent", "managementPctOfEGI",
                 "selfManaged", "utilitiesLandlordPaidAnnual", "otherOpExAnnual"},
             properties |-> [vacancyPct |-> [type |-> {"number"}, minimum |-> 0],
                 maintenancePctOfGrossRent |-> [type |-> {"number"}, minimum |-> 0],
                 managementPctOfEGI |-> [type |-> {"number"}, minimum |-> 0],
                 selfManaged |-> [type |-> {"boolean"}],
                 utilitiesLandlordPaidAnnual |-> [type |-> {"number"}, minimum |-> 0],
                 otherOpExAnnual |-> [type |-> {"number"}, minimum |-> 0]]],
         financing |-> [type |-> {"object"},
             additionalProperties |-> FALSE,
             required |-> {"downPaymentPct", "rateAnnualPct", "termYears", "loanAmount",
                 "monthlyPI", "annualDebtService"},
             properties |-> [downPaymentPct |-> [type |-> {"number"}, minimum |-> 0],
                 rateAnnualPct |-> [type |-> {"number"}, minimum |-> 0],
                 termYears |-> [type |-> {"integer"}, minimum |-> 1],
                 loanAmount |-> [type |-> {"number", "null"}, minimum |-> 0],
                 monthlyPI |-> [type |-> {"number", "null"}, minimum |-> 0],
                 annualDebtService |-> [type |-> {"number", "null"}, minimum |-> 0]]],
         totals |-> [type |-> {"object"},
             additionalProperties |-> FALSE,
             required |-> {"egiAnnual", "opExAnnual", "noiAnnual", "capRatePct", "dscr",
                 "cashFlowAnnual", "cashOnCashRoiPct", "onePercentRulePct"},
             properties |-> [egiAnnual |-> [type |-> {"number", "null"}, minimum |-> 0],
                 opExAnnual |-> [type |-> {"number", "null"}, minimum |-> 0],
                 noiAnnual |-> [type |-> {"number", "null"}, minimum |-> 0],
                 capRatePct |-> [type |-> {"number", "null"}, minimum |-> 0],
                 dscr |-> [type |-> {"number", "null"}, minimum |-> 0],
                 cashFlowAnnual |-> [type |-> {"number", "null"}, minimum |-> -1000000000],
                 cashOnCashRoiPct |-> [type |-> {"number", "null"}],
                 onePercentRulePct |-> [type |-> {"number", "null"}, minimum |-> 0]]],
         sensitivity |-> [type |-> {"object"},
             additionalProperties |-> FALSE,
             required |-> {"rentMinus10", "baseCase", "rentPlus10", "opExMinus10",
                 "opExPlus10"},
             properties |-> [rentMinus10 |-> [type |-> {"object"},
                     additionalProperties |-> FALSE,
                     required |-> {"noiAnnual", "capRatePct", "dscr", "cashFlowAnnual"},
                     properties |-> [noiAnnual |-> [type |-> {"number", "null"}],
                         capRatePct |-> [type |-> {"number", "null"}],
                         dscr |-> [type |-> {"number", "null"}],
                         cashFlowAnnual |-> [type |-> {"number", "null"}]]],
                 baseCase |-> [type |-> {"object"},
                     additionalProperties |-> FALSE,
                     required |-> {"noiAnnual", "capRatePct", "dscr", "cashFlowAnnual"},
                     properties |-> [noiAnnual |-> [type |-> {"number", "null"}],
                         capRatePct |-> [type |-> {"number", "null"}],
                         dscr |-> [type |-> {"number", "null"}],
                         cashFlowAnnual |-> [type |-> {"number", "null"}]]],
                 rentPlus10 |-> [type |-> {"object"},
                     additionalProperties |-> FALSE,
                     required |-> {"noiAnnual", "capRatePct", "dscr", "cashFlowAnnual"},
                     properties |-> [noiAnnual |-> [type |-> {"number", "null"}],
                         capRatePct |-> [type |-> {"number", "null"}],
                         dscr |-> [type |-> {"number", "null"}],
                         cashFlowAnnual |-> [type |-> {"number", "null"}]]],
                 opExMinus10 |-> [type |-> {"object"},
                     additionalProperties |-> FALSE,
                     required |-> {"noiAnnual", "capRatePct", "dscr", "cashFlowAnnual"},
                     properties |-> [noiAnnual |-> [type |-> {"number", "null"}],
                         capRatePct |-> [type |-> {"number", "null"}],
                         dscr |-> [type |-> {"number", "null"}],
                         cashFlowAnnual |-> [type |-> {"number", "null"}]]],
                 opExPlus10 |-> [type |-> {"object"},
                     additionalProperties |-> FALSE,
                     required |-> {"noiAnnual", "capRatePct", "dscr", "cashFlowAnnual"},
                     properties |-> [noiAnnual |-> [type |-> {"number", "null"}],
                         capRatePct |-> [type |-> {"number", "null"}],
                         dscr |-> [type |-> {"number", "null"}],
                         cashFlowAnnual |-> [type |-> {"number", "null"}]]]]],
         negotiation |-> [type |-> {"object"},
             additionalProperties |-> FALSE,
             required |-> {"targetCapPct", "maxPurchasePriceAtTargetCap", "assumptions"},
             properties |-> [targetCapPct |-> [type |-> {"number"}, minimum |-> 0],
                 maxPurchasePriceAtTargetCap |-> [type |-> {"number", "null"}, minimum |-> 0],
                 assumptions |-> [type |-> {"object"},
                     additionalProperties |-> FALSE,
                     required |-> {"closingCostPct", "pointsPct"},
                     properties |-> [closingCostPct |-> [type |-> {"number"}, minimum |-> 0],
                         pointsPct |-> [type |-> {"number"}, minimum |-> 0]]]]],
         glossary |-> [type |-> {"object"},
             additionalProperties |-> FALSE,
             required |-> {"EGI", "OpEx", "NOI", "Cap", "DSCR", "CoC"},
             properties |-> [EGI |-> [type |-> {"string"}],
                 OpEx |-> [type |-> {"string"}],
                 NOI |-> [type |-> {"string"}],
                 Cap |-> [type |-> {"string"}],
                 DSCR |-> [type |-> {"string"}],
                 CoC |-> [type |-> {"string"}]]]]]

\* PROPERTY_REPORT_SCHEMA of the handler that sends text.format.json_schema.
PROPERTY_REPORT_SCHEMA ==
    [name |-> "property_investment_report_v1",
     strict |-> FALSE,
     schema |-> [type |-> {"object"},
         additionalProperties |-> FALSE,
         required |-> {"version", "reportMeta", "subject", "purchase",
             "propertySnapshot", "units", "rents", "rentComps",
             "operatingAssumptions", "financing", "totals", "sensitivity",
             "negotiation", "glossary"},
         properties |-> ([version |-> [type |-> {"string"}, const |-> "1.0"],
             reportMeta |-> [type |-> {"object"},
                 additionalProperties |-> FALSE,
                 required |-> {"generatedAt", "targetCapPct", "currency", "locale"},
                 properties |-> [generatedAt |-> [type |-> {"string"}, format |-> "date-time"],
                     targetCapPct |-> [type |-> {"number"}, minimum |-> 0],
                     currency |-> [type |-> {"string"}, minLength |-> 1],
                     locale |-> [type |-> {"string"}, minLength |-> 2]]],
             subject |-> [type |-> {"object"},
                 additionalProperties |-> FALSE,
                 required |-> {"address"},
                 properties |-> [address |-> [type |-> {"string"}, minLength |-> 3],
                     unitLabel |-> [type |-> {"string"}],
                     city |-> [type |-> {"string"}],
                     state |-> [type |-> {"string"}],
                     zip |-> [type |-> {"string"}],
                     county |-> [type |-> {"string"}],
                     parcelId |-> [type |-> {"string"}],
                     mlsId |-> [type |-> {"string"}],
                     geo |-> [type |-> {"object"},
                         additionalProperties |-> FALSE,
                         properties |-> [lat |-> [type |-> {"number", "null"},
                                 minimum |-> -90,
                                 maximum |-> 90],
                             lng |-> [type |-> {"number", "null"},
                                 minimum |-> -180,
                                 maximum |-> 180]]]]],
             purchase |-> [type |-> {"object"},
                 additionalProperties |-> FALSE,
                 required |-> {"purchasePrice", "rehabBudget", "closingCostPct", "pointsPct",
                     "totalCost"},
                 properties |-> [purchasePrice |-> [type |-> {"number", "null"}, minimum |-> 0],
                     rehabBudget |-> [type |-> {"number"}, minimum |-> 0],
                     closingCostPct |-> [type |-> {"number"}, minimum |-> 0],
                     pointsPct |-> [type |-> {"number"}, minimum |-> 0],
                     totalCost |-> [type |-> {"number", "null"}, minimum |-> 0]]],
             propertySnapshot |-> [type |-> {"object"},
                 additionalProperties |-> FALSE,
                 required |-> {"propertyType", "unitMix", "beds", "baths", "hoa", "taxes",
                     "insurance", "recentUpdates"},
                 properties |-> [propertyType |-> [type |-> {"string"}],
                     unitMix |-> [type |-> {"string"}],
                     beds |-> [type |-> {"number"}, minimum |-> 0],
                     baths |-> [type |-> {"number"}, minimum |-> 0],
                     livingSqft |-> [type |-> {"number", "null"}, minimum |-> 0],
                     yearBuilt |-> [type |-> {"integer", "null"},
                         minimum |-> 1800,
                         maximum |-> 2100],
                     lotSizeSqft |-> [type |-> {"number", "null"}, minimum |-> 0],
                     hoa |-> [type |-> {"object"},
                         additionalProperties |-> FALSE,
                         required |-> {"hasHoa", "annual", "monthly", "name", "notes"},
                         properties |-> [hasHoa |-> [type |-> {"boolean"}],
                             annual |-> [type |-> {"number"}, minimum |-> 0],
                             monthly |-> [type |-> {"number"}, minimum |-> 0],
                             name |-> [type |-> {"string"}],
                             notes |-> [type |-> {"string"}]]],
                     taxes |-> [type |-> {"object"},
                         additionalProperties |-> FALSE,
                         required |-> {"annual", "year"},
                         properties |-> [annual |-> [type |-> {"number", "null"}, minimum |-> 0],
                             year |-> [type |-> {"integer", "null"},
                                 minimum |-> 2000,
                                 maximum |-> 2100]]],
                     insurance |-> [type |-> {"object"},
                         additionalProperties |-> FALSE,
                         required |-> {"dp3Annual", "notes"},
                         properties |-> [dp3Annual |-> [type |-> {"number", "null"}, minimum |-> 0],
                             notes |-> [type |-> {"string"}]]],
                     recentUpdates |-> [type |-> {"array"}, items |-> [type |-> {"string"}]]]],
             units |-> [type |-> {"array"},
                 minItems |-> 1,
                 items |-> [ref |-> <<"$defs", "unit">>]],
             rents |-> [type |-> {"object"},
                 additionalProperties |-> FALSE,
                 required |-> {"benchmarkMedian", "qualityAdjustmentPct",
                     "modeledMarketRentMonthly", "grossScheduledRentMonthly"},
                 properties |-> [benchmarkMedian |-> [type |-> {"number", "null"}, minimum |-> 0],
                     qualityAdjustmentPct |-> [type |-> {"number"}],
                     modeledMarketRentMonthly |-> [type |-> {"number", "null"}, minimum |-> 0],
                     grossScheduledRentMonthly |-> [type |-> {"number", "null"}, minimum |-> 0]]],
             rentComps |-> [type |-> {"array"},
                 minItems |-> 5,
                 items |-> [ref |-> <<"$defs", "rentComp">>]],
             operatingAssumptions |-> [type |-> {"object"},
                 additionalProperties |-> FALSE,
                 required |-> {"vacancyPct", "maintenancePctOfGrossRent", "managementPctOfEGI",
                     "selfManaged", "utilitiesLandlordPaidAnnual", "otherOpExAnnual"},
                 properties |-> [vacancyPct |-> [type |-> {"number"}, minimum |-> 0],
                     maintenancePctOfGrossRent |-> [type |-> {"number"}, minimum |-> 0],
                     managementPctOfEGI |-> [type |-> {"number"}, minimum |-> 0],
                     selfManaged |-> [type |-> {"boolean"}],
                     utilitiesLandlordPaidAnnual |-> [type |-> {"number"}, minimum |-> 0],
                     otherOpExAnnual |-> [type |-> {"number"}, minimum |-> 0]]],
             financing |-> [type |-> {"object"},
                 additionalProperties |-> FALSE,
                 required |-> {"downPaymentPct", "rateAnnualPct", "termYears", "loanAmount",
                     "monthlyPI", "annualDebtService"},
                 properties |-> [downPaymentPct |-> [type |-> {"number"}, minimum |-> 0],
                     rateAnnualPct |-> [type |-> {"number"}, minimum |-> 0],
                     termYears |-> [type |-> {"integer"}, minimum |-> 1],
                     loanAmount |-> [type |-> {"number", "null"}, minimum |-> 0],
                     monthlyPI |-> [type |-> {"number", "null"}, minimum |-> 0],
                     annualDebtService |-> [type |-> {"number", "null"}, minimum |-> 0]]],
             totals |-> [type |-> {"object"},
                 additionalProperties |-> FALSE,
                 required |-> {"egiAnnual", "opExAnnual", "noiAnnual", "capRatePct", "dscr",
                     "cashFlowAnnual", "cashOnCashRoiPct", "onePercentRulePct"},
                 properties |-> [egiAnnual |-> [type |-> {"number", "null"}, minimum |-> 0],
                     opExAnnual |-> [type |-> {"number", "null"}, minimum |-> 0],
                     noiAnnual |-> [type |-> {"number", "null"}, minimum |-> 0],
                     capRatePct |-> [type |-> {"number", "null"}, minimum |-> 0],
                     dscr |-> [type |-> {"number", "null"}, minimum |-> 0],
                     cashFlowAnnual |-> [type |-> {"number", "null"}, minimum |-> -1000000000],
                     cashOnCashRoiPct |-> [type |-> {"number", "null"}],
                     onePercentRulePct |-> [type |-> {"number", "null"}, minimum |-> 0]]],
             sensitivity |-> [type |-> {"object"},
                 additionalProperties |-> FALSE,
                 required |-> {"rentMinus10", "baseCase", "rentPlus10", "opExMinus10",
                     "opExPlus10"},
                 properties |-> [rentMinus10 |-> [ref |-> <<"$defs", "sensitivityCase">>],
                     baseCase |-> [ref |-> <<"$defs", "sensitivityCase">>],
                     rentPlus10 |-> [ref |-> <<"$defs", "sensitivityCase">>],
                     opExMinus10 |-> [ref |-> <<"$defs", "sensitivityCase">>],
                     opExPlus10 |-> [ref |-> <<"$defs", "sensitivityCase">>]]],
             negotiation |-> [type |-> {"object"},
                 additionalProperties |-> FALSE,
                 required |-> {"targetCapPct", "maxPurchasePriceAtTargetCap", "assumptions"},
                 properties |-> [targetCapPct |-> [type |-> {"number"}, minimum |-> 0],
                     maxPurchasePriceAtTargetCap |-> [type |-> {"number", "null"}, minimum |-> 0],
                     assumptions |-> [type |-> {"object"},
                         additionalProperties |-> FALSE,
                         required |-> {"closingCostPct", "pointsPct"},
                         properties |-> [closingCostPct |-> [type |-> {"number"}, minimum |-> 0],
                             pointsPct |-> [type |-> {"number"}, minimum |-> 0]]]]],
             glossary |-> [type |-> {"object"},
                 additionalProperties |-> FALSE,
                 required |-> {"EGI", "OpEx", "NOI", "Cap", "DSCR", "CoC"},
                 properties |-> [EGI |-> [type |-> {"string"}],
                     OpEx |-> [type |-> {"string"}],
                     NOI |-> [type |-> {"string"}],
                     Cap |-> [type |-> {"string"}],
                     DSCR |-> [type |-> {"string"}],
                     CoC |-> [type |-> {"string"}]]]]
             @@ ("$defs" :> [unit |-> [type |-> {"object"},
                     additionalProperties |-> FALSE,
                     required |-> {"name", "beds", "baths", "sqft", "modeledRentMonthly",
                         "leaseTermMonths", "notes"},
                     properties |-> [name |-> [type |-> {"string"}],
                         beds |-> [type |-> {"number"}, minimum |-> 0],
                         baths |-> [type |-> {"number"}, minimum |-> 0],
                         sqft |-> [type |-> {"number", "null"}, minimum |-> 0],
                         modeledRentMonthly |-> [type |-> {"number", "null"}, minimum |-> 0],
                         leaseTermMonths |-> [type |-> {"integer"}, minimum |-> 1],
                         notes |-> [type |-> {"string"}]]],
                 rentComp |-> [type |-> {"object"},
                     additionalProperties |-> FALSE,
                     required |-> {"address", "beds", "baths", "askingRent", "distanceMiles",
                         "conditionNote"},
                     properties |-> [address |-> [type |-> {"string"}, minLength |-> 3],
                         beds |-> [type |-> {"number"}, minimum |-> 0],
                         baths |-> [type |-> {"number"}, minimum |-> 0],
                         askingRent |-> [type |-> {"number", "null"}, minimum |-> 0],
                         distanceMiles |-> [type |-> {"number", "null"}, minimum |-> 0],
                         conditionNote |-> [type |-> {"string"}]]],
                 sensitivityCase |-> [type |-> {"object"},
                     additionalProperties |-> FALSE,
                     required |-> {"noiAnnual", "capRatePct", "dscr", "cashFlowAnnual"},
                     properties |-> [noiAnnual |-> [type |-> {"number", "null"}],
                         capRatePct |-> [type |-> {"number", "null"}],
                         dscr |-> [type |-> {"number", "null"}],
                         cashFlowAnnual |-> [type |-> {"number", "null"}]]]]))]]

\* The JSON types a value has.
JsonType(v) ==
    CASE v.k = "num" -> IF v.d = 1 THEN {"number", "integer"} ELSE {"number"}
      [] v.k = "null" -> {"null"}
      [] v.k = "str" -> {"string"}
      [] v.k = "arr" -> {"array"}
      [] v.k = "obj" -> {"object"}
      [] OTHER -> {}

\* JSON-schema validation of the part of a report the model keeps: a property
\* the part does not carry is not looked at, one it carries as undefined is
\* absent.  format is not validated.
RECURSIVE Validates(_, _)
Validates(node, v) ==
    /\ "type" \in DOMAIN node => JsonType(v) \cap node.type # {}
    /\ "const" \in DOMAIN node => v = [k |-> "str", s |-> node.const]
    /\ v.k = "num" =>
          /\ "minimum" \in DOMAIN node => v.n >= node.minimum * v.d
          /\ "maximum" \in DOMAIN node => v.n <= node.maximum * v.d
    /\ v.k = "str" => ("minLength" \in DOMAIN node => Len(v.s) >= node.minLength)
    /\ v.k = "arr" =>
          /\ "minItems" \in DOMAIN node => Len(v.items) >= node.minItems
          /\ "items" \in DOMAIN node =>
                \A i \in 1..Len(v.items) : Validates(node.items, v.items[i])
    /\ v.k = "obj" =>
          \A f \in DOMAIN v \ {"k"} :
              IF v[f] = [k |-> "undefined"]
              THEN "required" \in DOMAIN node => f \notin node.required
              ELSE IF f \in DOMAIN node.properties
                   THEN Validates(node.properties[f], v[f])
                   ELSE ~("additionalProperties" \in DOMAIN node
                          /\ node.additionalProperties = FALSE)

Conforms(x) == Validates(PROPERTY_REPORT_JSON_SCHEMA, x)

----------------------------------------------------------------------------
(* The report objects the generation service may answer with.  Only the    *)
(* properties page.jsx reads are kept.  A report is a base (nothing set,   *)
(* everything null, or a typical filled-in report) with up to              *)
(* MaxDeviations properties changed; a section none of whose properties is *)
(* set is itself missing, either undefined or null.                        *)

MaxDeviations == 1
MaxUnits == 2

Leaves ==
    {"address", "purchasePrice", "closingCostPct", "pointsPct", "vacancyPct",
     "maintenancePctOfGrossRent", "managementPctOfEGI",
     "utilitiesLandlordPaidAnnual", "otherOpExAnnual", "dp3Annual",
     "taxesAnnual", "hoaAnnual", "downPaymentPct", "rateAnnualPct",
     "termYears", "units", "rentComps"}

UnitEntry(name, rent) ==
    [k |-> "obj", name |-> Str(name), modeledRentMonthly |-> rent]

UnitEntries ==
    {UnitEntry("Unit 1", Num(1500)), UnitEntry("Unit 2", Num(2000)),
     UnitEntry("Unit 3", Null), Null}

CompEntry(rent) ==
    [k |-> "obj", address |-> Str("14 Elm St"), askingRent |-> rent,
     beds |-> Num(2), baths |-> Num(1), distanceMiles |-> Null,
     conditionNote |-> Str("fair")]

SeqsUpTo(S, n) == UNION {[1..m -> S] : m \in 0..n}

Typical ==
    [address |-> Str("12 Elm St"), purchasePrice |-> Num(300000),
     closingCostPct |-> Num(3), pointsPct |-> Num(1), vacancyPct |-> Num(5),
     maintenancePctOfGrossRent |-> Num(8), managementPctOfEGI |-> Num(10),
     utilitiesLandlordPaidAnnual |-> Num(600), otherOpExAnnual |-> Num(250),
     dp3Annual |-> Num(1200), taxesAnnual |-> Num(3000), hoaAnnual |-> Num(480),
     downPaymentPct |-> Num(25), rateAnnualPct |-> Num(6), termYears |-> Num(30),
     units |-> Arr(<<UnitEntry("Unit 1", Num(1500))>>),
     rentComps |-> Arr([i \in 1..5 |-> CompEntry(Num(1400))])]

\* The typical report with taxes that exceed its income.
Distressed == [Typical EXCEPT !.taxesAnnual = Num(30000)]

Bases == {[l \in Leaves |-> Undef], [l \in Leaves |-> Null], Typical, Distressed}

\* The values a changed property takes, besides undefined, null and the
\* typical one.
Alternatives(l) ==
    CASE l = "address" -> {Str("")}
      [] l = "purchasePrice" -> {Num(0), Num(500000)}
      [] l = "vacancyPct" -> {Num(0), Num(50)}
      [] l = "taxesAnnual" -> {Num(30000)}
      [] l = "downPaymentPct" -> {Num(0), Num(100), Num(150)}
      [] l = "rateAnnualPct" -> {Num(0), Rat(77, 10)}
      [] l = "termYears" -> {Num(1)}
      [] l = "units" -> {Str("n/a")} \cup {Arr(s) : s \in SeqsUpTo(UnitEntries, MaxUnits)}
      [] l = "rentComps" -> {Arr(<<>>), Arr(<<CompEntry(Null)>>), Arr(<<Null>>)}
      [] OTHER -> {Num(0)}

LeafValues(l) == {Undef, Null, Typical[l]} \cup Alternatives(l)

\* A section object, or `missing` when none of its properties is set.
Section(obj, names, missing) ==
    IF \A f \in names : obj[f] = Undef THEN missing ELSE obj

MkReport(v, missing) ==
    [k |-> "obj",
     subject |-> Section([k |-> "obj", address |-> v.address], {"address"}, missing),
     purchase |->
        Section([k |-> "obj", purchasePrice |-> v.purchasePrice,
                 closingCostPct |-> v.closingCostPct, pointsPct |-> v.pointsPct],
                {"purchasePrice", "closingCostPct", "pointsPct"}, missing),
     propertySnapshot |->
        Section([k |-> "obj",
                 insurance |-> Section([k |-> "obj", dp3Annual |-> v.dp3Annual],
                                       {"dp3Annual"}, Undef),
                 taxes |-> Section([k |-> "obj", annual |-> v.taxesAnnual],
                                   {"annual"}, Undef),
                 hoa |-> Section([k |-> "obj", annual |-> v.hoaAnnual],
                                 {"annual"}, Undef)],
                {"insurance", "taxes", "hoa"}, missing),
     operatingAssumptions |->
        Section([k |-> "obj", vacancyPct |-> v.vacancyPct,
                 maintenancePctOfGrossRent |-> v.maintenancePctOfGrossRent,
                 managementPctOfEGI |-> v.managementPctOfEGI,
                 utilitiesLandlordPaidAnnual |-> v.utilitiesLandlordPaidAnnual,
                 otherOpExAnnual |-> v.otherOpExAnnual],
                {"vacancyPct", "maintenancePctOfGrossRent", "managementPctOfEGI",
                 "utilitiesLandlordPaidAnnual", "otherOpExAnnual"}, missing),
     financing |->
        Section([k |-> "obj", downPaymentPct |-> v.downPaymentPct,
                 rateAnnualPct |-> v.rateAnnualPct, termYears |-> v.termYears],
                {"downPaymentPct", "rateAnnualPct", "termYears"}, missing),
     units |-> v.units,
     rentComps |-> v.rentComps]

Override(base, ch) == [l \in Leaves |-> IF l \in DOMAIN ch THEN ch[l] ELSE base[l]]

Changes ==
    UNION {{ch \in [D -> UNION {LeafValues(l) : l \in D}] :
               \A l \in D : ch[l] \in LeafValues(l)} :
           D \in {D \in SUBSET Leaves : Cardinality(D) <= MaxDeviations}}

Reports ==
    {MkReport(Override(base, ch), missing) :
        base \in Bases, ch \in Changes, missing \in {Undef, Null}}

----------------------------------------------------------------------------
(* mapFromSchema: the report as the service sent it -> the calculator's    *)
(* input object.                                                           *)

TypeError == [k |-> "TypeError"]

IsArray(v) == v.k = "arr"

\* Reading a property of null or undefined throws.
ReadThrows(items) == \E i \in 1..Len(items) : IsNullish(items[i])

pctToDec(n, def) == IF IsNumberType(n) THEN Div(n, Num(100)) ELSE def

\* yearsToMonths with the default taken as months already.
yearsToMonthsRawDefault(y, def) ==
    IF IsNumberType(y) THEN Mul(y, Num(12)) ELSE def

yearsToMonths(y, def) ==
    IF IsNumberType(y) THEN Mul(y, Num(12)) ELSE Mul(def, Num(12))

SyntheticUnit == [k |-> "obj", name |-> Str("Unit A"), rent |-> Num(0)]

\* mapUnit without the ?? 0 on the rent.
mapUnitNoDefault(u) ==
    [k |-> "obj", name |-> u.name, rent |-> u.modeledRentMonthly]

\* u => ({ name: u.name, rent: u.modeledRentMonthly ?? 0 })
mapUnit(u) ==
    [k |-> "obj", name |-> u.name, rent |-> Coalesce(u.modeledRentMonthly, Num(0))]

\* mapUnits adding the synthetic unit to a list that has units.
mapUnitsPlusSynthetic(units) ==
    IF IsArray(units) /\ Len(units.items) > 0
    THEN Arr(Append([i \in 1..Len(units.items) |-> mapUnit(units.items[i])], SyntheticUnit))
    ELSE Arr(<<SyntheticUnit>>)

mapUnits(units) ==
    IF IsArray(units) /\ Len(units.items) > 0
    THEN Arr([i \in 1..Len(units.items) |-> mapUnit(units.items[i])])
    ELSE Arr(<<SyntheticUnit>>)

\* `${c.beds}/${c.baths}` is kept as the two values around the slash.
mapComp(c) ==
    [k |-> "obj", label |-> c.address, rent |-> Coalesce(c.askingRent, Num(0)),
     beds |-> <<c.beds, "/", c.baths>>, dist |-> Coalesce(c.distanceMiles, Num(0)),
     condition |-> c.conditionNote]

mapComps(comps) ==
    IF IsArray(comps)
    THEN Arr([i \in 1..Len(comps.items) |-> mapComp(comps.items[i])])
    ELSE Arr(<<>>)

mapFromSchema(x) ==
    IF \/ IsArray(x.units) /\ ReadThrows(x.units.items)
       \/ IsArray(x.rentComps) /\ ReadThrows(x.rentComps.items)
    THEN TypeError
    ELSE
    [k |-> "obj",
     address |-> Coalesce(OptGet(x.subject, "address"), Str("")),
     purchasePrice |-> Coalesce(OptGet(x.purchase, "purchasePrice"), Num(0)),
     closingPct |-> Coalesce(OptGet(x.purchase, "closingCostPct"), Rat(2, 100)),
     pointsOnLoanPctOfPrice |-> Coalesce(OptGet(x.purchase, "pointsPct"), Num(0)),
     vacancyRate |-> pctToDec(OptGet(x.operatingAssumptions, "vacancyPct"), Rat(5, 100)),
     maintPctOfGrossRent |->
        pctToDec(OptGet(x.operatingAssumptions, "maintenancePctOfGrossRent"), Rat(8, 100)),
     mgmtPctOfEGI |->
        pctToDec(OptGet(x.operatingAssumptions, "managementPctOfEGI"), Rat(8, 100)),
     insuranceAnnual |->
        Coalesce(OptGet(OptGet(x.propertySnapshot, "insurance"), "dp3Annual"), Num(0)),
     taxesAnnual |->
        Coalesce(OptGet(OptGet(x.propertySnapshot, "taxes"), "annual"), Num(0)),
     hoaAnnual |->
        Coalesce(OptGet(OptGet(x.propertySnapshot, "hoa"), "annual"), Num(0)),
     utilsAnnualLL |->
        Coalesce(OptGet(x.operatingAssumptions, "utilitiesLandlordPaidAnnual"), Num(0)),
     otherAnnual |-> Coalesce(OptGet(x.operatingAssumptions, "otherOpExAnnual"), Num(0)),
     units |-> mapUnits(x.units),
     financing |->
        [k |-> "obj",
         downPct |-> pctToDec(OptGet(x.financing, "downPaymentPct"), Rat(25, 100)),
         rateAnnual |-> pctToDec(OptGet(x.financing, "rateAnnualPct"), Rat(77, 1000)),
         termMonths |-> yearsToMonths(OptGet(x.financing, "termYears"), Num(30))],
     comps |-> mapComps(x.rentComps)]

----------------------------------------------------------------------------
(* withDefaults: the calculator's input object with every gap filled.      *)

withDefaults(x) ==
    [k |-> "obj",
     address |-> OrElse(x.address, Str("")),
     purchasePrice |-> Coalesce(x.purchasePrice, Num(0)),
     closingPct |-> Coalesce(x.closingPct, Rat(3, 100)),
     pointsOnLoanPctOfPrice |-> Coalesce(x.pointsOnLoanPctOfPrice, Rat(75, 10000)),
     vacancyRate |-> Coalesce(x.vacancyRate, Rat(5, 100)),
     maintPctOfGrossRent |-> Coalesce(x.maintPctOfGrossRent, Rat(8, 100)),
     mgmtPctOfEGI |-> Coalesce(x.mgmtPctOfEGI, Rat(8, 100)),
     insuranceAnnual |-> Coalesce(x.insuranceAnnual, Num(0)),
     taxesAnnual |-> Coalesce(x.taxesAnnual, Num(0)),
     otherAnnual |-> Coalesce(x.otherAnnual, Num(0)),
     hoaAnnual |-> Coalesce(x.hoaAnnual, Num(0)),
     utilsAnnualLL |-> Coalesce(x.utilsAnnualLL, Num(0)),
     units |-> IF IsArray(x.units) /\ Len(x.units.items) > 0
               THEN x.units ELSE Arr(<<SyntheticUnit>>),
     financing |->
        [k |-> "obj",
         downPct |-> Coalesce(OptGet(x.financing, "downPct"), Rat(25, 100)),
         rateAnnual |-> Coalesce(OptGet(x.financing, "rateAnnual"), Rat(77, 1000)),
         termMonths |-> Coalesce(OptGet(x.financing, "termMonths"), Num(360))],
     comps |-> Coalesce(x.comps, Arr(<<>>))]

----------------------------------------------------------------------------
(* Report: the metrics computed from the defaulted input d.                *)

\* d.units.reduce((s,u)=>s+(u.rent||0),0)
RECURSIVE SumRent(_, _)
SumRent(items, s) ==
    IF items = <<>> THEN s
    ELSE SumRent(Tail(items), Add(s, OrElse(Head(items).rent, Num(0))))

monthlyRent(d) == SumRent(d.units.items, Num(0))
\* annualGSR left as the monthly figure.
annualGSRMonthly(d) == monthlyRent(d)
annualGSR(d) == Mul(monthlyRent(d), Num(12))
vacancy(d) == Mul(annualGSR(d), d.vacancyRate)
\* egi with the vacancy rate subtracted in place of the vacancy loss.
egiLessRate(d) == Sub(annualGSR(d), d.vacancyRate)
egi(d) == Sub(annualGSR(d), vacancy(d))
\* maintenance taken from the effective gross income.
maintOfEGI(d) == Mul(egi(d), d.maintPctOfGrossRent)
maint(d) == Mul(annualGSR(d), d.maintPctOfGrossRent)
mgmt(d) == Mul(egi(d), d.mgmtPctOfEGI)
opEx(d) ==
    Add(Add(Add(Add(Add(Add(d.taxesAnnual, d.insuranceAnnual), d.hoaAnnual),
                    maint(d)), mgmt(d)), d.utilsAnnualLL), d.otherAnnual)
noi(d) == Sub(egi(d), opEx(d))
closingCost(d) == Mul(d.purchasePrice, d.closingPct)
totalCost(d) == Add(d.purchasePrice, closingCost(d))
loanAmount(d) == Mul(d.purchasePrice, Sub(Num(1), d.financing.downPct))
monthlyRate(d) == Div(d.financing.rateAnnual, Num(12))
\* The interest of one month alone.
monthlyPIInterestOnly(d) == Mul(loanAmount(d), monthlyRate(d))
monthlyPI(d) ==
    Div(Mul(loanAmount(d), monthlyRate(d)),
        Sub(Num(1), MathPow(Add(Num(1), monthlyRate(d)), Neg(d.financing.termMonths))))
annualDebtService(d) == Mul(monthlyPI(d), Num(12))
dscr(d) == Div(noi(d), annualDebtService(d))
pointsCost(d) == Mul(d.purchasePrice, d.pointsOnLoanPctOfPrice)
cashInvested(d) ==
    Add(Add(Mul(d.purchasePrice, d.financing.downPct), closingCost(d)), pointsCost(d))
cashFlow(d) == Sub(noi(d), annualDebtService(d))
capRate(d) == Div(noi(d), totalCost(d))

\* Rounding to a whole number, halves away from zero (maximumFractionDigits: 0).
RoundWhole(v) ==
    IF v.k # "num" THEN v
    ELSE Num((IF v.n < 0 THEN -1 ELSE 1) * ((2 * Abs(v.n) + v.d) \div (2 * v.d)))

\* fmtUSD: "-" for null, undefined and NaN, else the amount as currency.
fmtUSD(n) ==
    IF IsNullish(n) \/ ToNumber(n).k = "NaN" THEN Str("-")
    ELSE [k |-> "usd", amount |-> RoundWhole(ToNumber(n))]

\* Everything the component computes before it returns its markup.
Report(data) ==
    LET d == withDefaults(data)
    IN  [d |-> d,
         monthlyRent |-> monthlyRent(d), annualGSR |-> annualGSR(d),
         vacancy |-> vacancy(d), egi |-> egi(d), maint |-> maint(d),
         mgmt |-> mgmt(d), opEx |-> opEx(d), noi |-> noi(d),
         closingCost |-> closingCost(d), totalCost |-> totalCost(d),
         loanAmount |-> loanAmount(d), r |-> monthlyRate(d),
         n |-> d.financing.termMonths, monthlyPI |-> monthlyPI(d),
         annualDebtService |-> annualDebtService(d), dscr |-> dscr(d),
         pointsCost |-> pointsCost(d), cashInvested |-> cashInvested(d),
         cashFlow |-> cashFlow(d), capRate |-> capRate(d),
         dscrShown |-> OrElse(dscr(d), Num(0)),
         noiShown |-> fmtUSD(noi(d)), cashFlowShown |-> fmtUSD(cashFlow(d))]

----------------------------------------------------------------------------
(* The page, from the moment an OK response body has arrived.              *)

VARIABLES
    pc,            \* "received", "settled", "rendered"
    data,          \* the body of the response (line 31)
    responseJSON,  \* the page's state of that name
    error,         \* the page's state of that name
    view,          \* what Report computed at its last render, or null
    handler,       \* which of the repository's generate handlers serves the request
    req,           \* the request: method, body as the platform hands it over, raw stream
    env,           \* process.env
    hpc,           \* the handler's position
    body,          \* the handler's local of that name
    headers,       \* the names of the headers set on res
    fetched,       \* the bodies of the requests sent to the generation service
    r,             \* the outcome of the fetch
    responses,     \* the responses sent on res
    loading,       \* the page's state of that name
    form,          \* the page's states address, price and overrides
    requestJSON,   \* the page's state of that name
    res            \* the outcome of the page's fetch

vars == <<pc, data, responseJSON, error, view>>

handlerVars == <<handler, req, env, hpc, body, headers, fetched, r, responses>>

submitVars == <<loading, form, requestJSON, res>>

\* The page as useState leaves it at the first render, nothing submitted.
EmptyForm == [address |-> "", price |-> "", overrides |-> ""]

SubmitIdle ==
    /\ loading = FALSE /\ form = EmptyForm
    /\ requestJSON = [k |-> "null"] /\ res = [k |-> "null"]

\* No request is being served.
HandlerIdle ==
    /\ handler = "none" /\ hpc = "idle"
    /\ req = [k |-> "null"] /\ env = [k |-> "null"] /\ body = [k |-> "undefined"]
    /\ r = [k |-> "null"]
    /\ headers = {} /\ fetched = <<>> /\ responses = <<>>

Init ==
    /\ HandlerIdle
    /\ SubmitIdle
    /\ pc = "received"
    /\ data \in Reports
    /\ responseJSON = Null
    /\ error = Str("")
    /\ view = Null

\* MapResponse normalising the units of the response body in place.
MapResponseInPlace ==
    /\ pc = "received"
    /\ LET m == mapFromSchema(data)
       IN  IF m = TypeError
           THEN error' = Str("TypeError") /\ UNCHANGED <<responseJSON, data>>
           ELSE /\ responseJSON' = m
                /\ data' = [data EXCEPT !.units = m.units]
                /\ UNCHANGED error
    /\ pc' = "settled"
    /\ UNCHANGED view
    /\ UNCHANGED handlerVars
    /\ UNCHANGED submitVars

\* setResponseJSON(mapFromSchema(data)), or the catch clause.
MapResponse ==
    /\ pc = "received"
    /\ LET m == mapFromSchema(data)
       IN  IF m = TypeError
           THEN error' = Str("TypeError") /\ UNCHANGED responseJSON
           ELSE responseJSON' = m /\ UNCHANGED error
    /\ pc' = "settled"
    /\ UNCHANGED <<data, view>>
    /\ UNCHANGED handlerVars
    /\ UNCHANGED submitVars

\* {responseJSON ? <Report data={responseJSON} /> : ...}
Render ==
    /\ pc = "settled"
    /\ responseJSON # Null
    /\ view' = Report(responseJSON)
    /\ pc' = "rendered"
    /\ UNCHANGED <<data, responseJSON, error>>
    /\ UNCHANGED handlerVars
    /\ UNCHANGED submitVars

Next == MapResponse \/ Render

Spec == Init /\ [][Next]_<<vars, handlerVars, submitVars>>

----------------------------------------------------------------------------
(* The generate handlers: src/api/generate.js, src/unnamed/part_000 and    *)
(* the two handlers of src/unnamed/part_001 (lines 2-48 and 59-144).       *)

Handlers == {"generate", "part_000", "part_001a", "part_001b"}

SyntaxError == [k |-> "SyntaxError"]

\* An object with the three properties the handlers read from the body;
\* undefined stands for a property the object does not have.
Body(address, purchasePrice, overrides) ==
    [k |-> "obj", address |-> address, purchasePrice |-> purchasePrice,
     overrides |-> overrides]

\* A report as it comes out of one of the three places of an upstream
\* response; `from` tells the places apart.
ReportFrom(from) == [k |-> "obj", version |-> Str("1.0"), from |-> Str(from)]

\* JSON.parse on the texts that occur: the value, or SyntaxError when it throws.
JSONParse(text) ==
    CASE text = "null" -> Null
      [] text = "0" -> Num(0)
      [] text = "7" -> Num(7)
      [] text = "{}" -> [k |-> "obj"]
      [] text = "{\"address\":\"12 Elm St\"}" -> Body(Str("12 Elm St"), Undef, Undef)
      [] text = "{\"address\":\"  \"}" -> Body(Str("  "), Undef, Undef)
      [] text = "{\"address\":123}" -> Body(Num(123), Undef, Undef)
      [] text = "{\"version\":\"1.0\",\"from\":\"output_text\"}" -> ReportFrom("output_text")
      [] text = "{\"version\":\"1.0\",\"from\":\"output\"}" -> ReportFrom("output")
      [] text = "{\"version\":\"1.0\",\"from\":\"output2\"}" -> ReportFrom("output2")
      [] OTHER -> SyntaxError

\* String.prototype.trim on the texts that occur.
Trim(s) ==
    CASE s \in {"", " ", "  "} -> ""
      [] s = " 12 Elm St " -> "12 Elm St"
      [] s = " cash " -> "cash"
      [] OTHER -> s

\* An object with an own toString that is not a function, as JSON.parse
\* makes it from {"toString":1}.
Unconvertible == [k |-> "obj", toString |-> Num(1)]

\* String(v) and `${v}` throw a TypeError: v has no callable toString and
\* Object.prototype.valueOf gives back the object.
StringThrows(v) == v.k = "obj" /\ "toString" \in DOMAIN v

\* String(v), where it does not throw
JSString(v) ==
    CASE v.k = "str" -> v.s
      [] v.k = "num" /\ v.d = 1 -> ToString(v.n)
      [] v.k = "arr" /\ v.items = <<>> -> ""
      [] v.k = "obj" -> "[object Object]"
      [] OTHER -> v.k

\* v.f for a value v that is not null or undefined.
Prop(v, f) == IF v.k = "obj" /\ f \in DOMAIN v THEN v[f] ELSE Undef

\* The requests.
Methods == {"OPTIONS", "GET", "POST"}

RawTexts ==
    {"", "{", "null", "{}", "{\"address\":\"12 Elm St\"}", "{\"address\":\"  \"}",
     "{\"address\":123}"}

Addresses ==
    {Undef, Null, Str(""), Str("  "), Str("12 Elm St"), Str(" 12 Elm St "),
     Num(123), Arr(<<>>), [k |-> "obj"], Unconvertible}

\* req.body is undefined when the platform left the stream unread, a string
\* when it did not parse it, and the parsed value otherwise.
Requests ==
    {[method |-> m, body |-> Undef, raw |-> t] : m \in Methods, t \in RawTexts}
    \cup {[method |-> m, body |-> Str(t), raw |-> ""] :
             m \in Methods, t \in {"{", "{\"address\":\"12 Elm St\"}"}}
    \cup {[method |-> m, body |-> Body(a, po[1], po[2]), raw |-> ""] :
             m \in Methods, a \in Addresses,
             po \in {<<Undef, Undef>>, <<Num(250000), Str(" cash ")>>,
                     <<Unconvertible, Undef>>, <<Undef, Unconvertible>>}}

Environments ==
    {[OPENAI_API_KEY |-> key, OPENAI_PROMPT_ID |-> id, OPENAI_MODEL |-> Undef] :
        key \in {Undef, Str(""), Str("sk-test")}, id \in {Undef, Str("pmpt_1")}}

\* The responses of the generation service.
Item(type, text) == [k |-> "obj", type |-> Str(type), text |-> text]
Message(content) == [k |-> "obj", type |-> Str("message"), content |-> content]
Reasoning == [k |-> "obj", type |-> Str("reasoning")]

TextOfOutput == "{\"version\":\"1.0\",\"from\":\"output\"}"
TextOfOutput2 == "{\"version\":\"1.0\",\"from\":\"output2\"}"

OutputParsedValues == {Undef, Null, Num(0), ReportFrom("output_parsed")}

OutputTextValues ==
    {Undef, Str(""), Str("not json"), Str("null"), Str("7"),
     Str("{\"version\":\"1.0\",\"from\":\"output_text\"}")}

OutputValues ==
    {Undef, Arr(<<>>),
     Arr(<<Reasoning, Message(Arr(<<Item("output_text", Str(TextOfOutput))>>))>>),
     Arr(<<Message(Arr(<<Item("refusal", Undef), Item("text", Str(TextOfOutput))>>))>>),
     Arr(<<Message(Arr(<<Item("output_text", Str("not json")),
                         Item("output_text", Str(TextOfOutput2))>>))>>),
     Arr(<<Message(Arr(<<Item("output_text", Num(5))>>)),
           Message(Arr(<<Item("output_text", Str(TextOfOutput2)),
                         Item("text", Str(TextOfOutput))>>))>>)}

\* The bodies of the non-OK responses: an error object, one that also has
\* the properties a report is looked for in, and null.
ErrorBodies ==
    {[k |-> "obj", error |-> [k |-> "obj", message |-> Str("upstream said no")]],
     [k |-> "obj", error |-> [k |-> "obj", message |-> Str("upstream said no")],
      output_parsed |-> ReportFrom("output_parsed"),
      output_text |-> Str("{\"version\":\"1.0\",\"from\":\"output_text\"}")],
     Null}

\* r after the fetch: a response with its decoded body (data) and the length
\* of that body's JSON text, or what the fetch threw, or what r.json() threw
\* on a response of the given status whose body is not JSON.
Replies ==
    {[kind |-> "ok", status |-> 200, size |-> 400,
      data |-> [k |-> "obj", output_parsed |-> p, output_text |-> t, output |-> o]] :
        p \in OutputParsedValues, t \in OutputTextValues, o \in OutputValues}
    \cup {[kind |-> "ok", status |-> 200, size |-> 52000,
           data |-> [k |-> "obj", output_parsed |-> Undef, output_text |-> Undef,
                     output |-> Arr(<<Reasoning>>)]]}
    \cup {[kind |-> "notok", status |-> s, size |-> 90, data |-> d] :
             s \in {401, 429}, d \in ErrorBodies}
    \cup {[kind |-> "thrown", message |-> m] : m \in {Str("fetch failed"), Str("")}}
    \cup {[kind |-> "thrown", status |-> s,
           message |-> Str("Unexpected token < in JSON at position 0")] : s \in {200, 502}}

\* safeParseJSON
safeParseJSON(s) ==
    IF s = "" THEN Null
    ELSE IF JSONParse(s) = SyntaxError THEN Null ELSE JSONParse(s)

\* data.output.flatMap(m => Array.isArray(m.content) ? m.content : [])
RECURSIVE FlatContent(_)
FlatContent(msgs) ==
    IF msgs = <<>> THEN <<>>
    ELSE (IF IsArray(Prop(Head(msgs), "content"))
          THEN Prop(Head(msgs), "content").items ELSE <<>>)
         \o FlatContent(Tail(msgs))

\* .find(c => (c.type === "output_text" || c.type === "text") && typeof c.text === "string")
RECURSIVE FindText(_)
FindText(items) ==
    IF items = <<>> THEN Undef
    ELSE IF /\ Prop(Head(items), "type") \in {Str("output_text"), Str("text")}
            /\ Prop(Head(items), "text").k = "str"
         THEN Head(items)
         ELSE FindText(Tail(items))

\* The selection with output_text looked at before output_parsed.
SelectParsedTextFirst(d) ==
    LET p1 == IF Prop(d, "output_text").k = "str"
              THEN safeParseJSON(Prop(d, "output_text").s) ELSE Undef
        p2 == IF ~Truthy(p1) THEN Prop(d, "output_parsed") ELSE p1
        firstText == FindText(FlatContent(Prop(d, "output").items))
    IN  IF ~Truthy(p2) /\ IsArray(Prop(d, "output"))
        THEN IF Truthy(firstText) THEN safeParseJSON(firstText.text.s) ELSE p2
        ELSE p2

\* let parsed = data.output_parsed, then the two fallbacks.
SelectParsed(d) ==
    LET p1 == Prop(d, "output_parsed")
        p2 == IF ~Truthy(p1) /\ Prop(d, "output_text").k = "str"
              THEN safeParseJSON(Prop(d, "output_text").s) ELSE p1
        firstText == FindText(FlatContent(Prop(d, "output").items))
    IN  IF ~Truthy(p2) /\ IsArray(Prop(d, "output"))
        THEN IF Truthy(firstText) THEN safeParseJSON(firstText.text.s) ELSE p2
        ELSE p2

\* data.output_parsed ?? (typeof data.output_text === "string" ? ... : null)
SelectParsedOrText(d) ==
    Coalesce(Prop(d, "output_parsed"),
             IF Prop(d, "output_text").k = "str"
             THEN safeParseJSON(Prop(d, "output_text").s) ELSE Null)

\* redactLarge: a body of more than 40,000 characters is cut there, and what
\* is left does not parse.
redactLarge(obj, size) ==
    IF size > 40000 THEN [k |-> "obj", notice |-> Str("unable to serialize raw response")]
    ELSE obj

\* The single line handed to the prompt ("--" stands for the dash).
userInput(h, b) ==
    LET address == Prop(b, "address")
        purchasePrice == Prop(b, "purchasePrice")
        overrides == Prop(b, "overrides")
        priceStr == IF Truthy(purchasePrice) THEN " -- $" \o JSString(purchasePrice) ELSE ""
    IN  IF h = "part_001a"
        THEN JSString(address) \o priceStr
             \o (IF Truthy(overrides) THEN " " \o JSString(overrides) ELSE "")
        ELSE Trim(JSString(address)) \o priceStr
             \o (IF Truthy(overrides) THEN " " \o Trim(JSString(overrides)) ELSE "")

\* Building that line throws: one of its three conversions does.
userInputThrows(b) ==
    \/ StringThrows(Prop(b, "address"))
    \/ Truthy(Prop(b, "purchasePrice")) /\ StringThrows(Prop(b, "purchasePrice"))
    \/ Truthy(Prop(b, "overrides")) /\ StringThrows(Prop(b, "overrides"))

\* The test that answers 400 throws: String(address) in the handlers that
\* convert before they trim.
AddressTestThrows(h, address) ==
    h \in {"part_000", "part_001b"} /\ Truthy(address) /\ StringThrows(address)

\* The body of the request to https://api.openai.com/v1/responses.
RequestBody(h, e, b) ==
    CASE h = "generate" ->
           [prompt |-> [id |-> e.OPENAI_PROMPT_ID, version |-> "1"],
            input |-> userInput(h, b),
            response_format |-> [type |-> "json_object"]]
      [] h = "part_000" ->
           [model |-> OrElse(e.OPENAI_MODEL, Str("gpt-5-mini-2025-08-07")),
            prompt |-> [id |-> e.OPENAI_PROMPT_ID],
            input |-> userInput(h, b),
            text |-> [format |-> [type |-> "json_schema",
                                  name |-> "property_investment_report_v1",
                                  strict |-> FALSE,
                                  schema |-> PROPERTY_REPORT_JSON_SCHEMA]]]
      [] h = "part_001a" ->
           [prompt |-> [id |-> e.OPENAI_PROMPT_ID, version |-> "1"],
            input |-> userInput(h, b)]
      [] h = "part_001b" ->
           [model |-> Str("gpt-5-thinking"),
            prompt |-> [id |-> e.OPENAI_PROMPT_ID, version |-> "1",
                        variables |-> [input |-> userInput(h, b)]],
            text |-> [format |-> [type |-> "json_schema",
                                  json_schema |-> PROPERTY_REPORT_SCHEMA]]]

EmptyObject == [k |-> "obj"]

\* let body = req.body, read from the stream or parsed where the handler does so.
ParsedBody(h, rq) ==
    IF ~Truthy(rq.body)
    THEN IF h = "part_001a"
         THEN LET v == JSONParse(IF rq.raw = "" THEN "{}" ELSE rq.raw)
              IN  IF v = SyntaxError THEN EmptyObject ELSE v
         ELSE IF rq.raw = "" THEN EmptyObject
              ELSE IF JSONParse(rq.raw) = SyntaxError THEN EmptyObject
                   ELSE JSONParse(rq.raw)
    ELSE IF h # "part_001a" /\ rq.body.k = "str"
         THEN IF JSONParse(rq.body.s) = SyntaxError THEN EmptyObject
              ELSE JSONParse(rq.body.s)
         ELSE rq.body

\* The object the handler destructures: body || {}, or body itself.
Destructured(h, b) == IF h = "part_001a" THEN b ELSE OrElse(b, EmptyObject)

\* The test that answers 400.
AddressRejected(h, address) ==
    CASE h = "generate" ->
           ~Truthy(address) \/ address.k # "str" \/ Trim(address.s) = ""
      [] h = "part_001a" -> ~Truthy(address)
      [] OTHER -> ~Truthy(address) \/ Trim(JSString(address)) = ""

CorsHeaders ==
    {"Access-Control-Allow-Origin", "Access-Control-Allow-Methods",
     "Access-Control-Allow-Headers"}

ErrorBody(message) == [k |-> "obj", error |-> Str(message)]

\* res.status(status).json(b), or .end() when b is undefined.
Sent(status, b, hs) == Append(responses, [status |-> status, body |-> b, headers |-> hs])

HandlerInit ==
    /\ SubmitIdle
    /\ pc = "idle" /\ data = Null /\ responseJSON = Null /\ error = Str("") /\ view = Null
    /\ handler \in Handlers
    /\ req \in Requests
    /\ env \in Environments
    /\ hpc = "start"
    /\ body = Undef /\ r = Null
    /\ headers = {} /\ fetched = <<>> /\ responses = <<>>

\* The three setHeader calls and the two tests of req.method.
Preflight ==
    /\ hpc = "start"
    /\ headers' = headers \cup CorsHeaders
    /\ IF req.method = "OPTIONS"
       THEN responses' = Sent(200, Undef, CorsHeaders) /\ hpc' = "done"
       ELSE IF req.method # "POST"
            THEN responses' = Sent(405, ErrorBody("Only POST"), CorsHeaders) /\ hpc' = "done"
            ELSE hpc' = "env" /\ UNCHANGED responses
    /\ UNCHANGED <<handler, req, env, body, fetched, r>>
    /\ UNCHANGED vars
    /\ UNCHANGED submitVars

\* The two tests of process.env; the first handler of part_001 has none.
CheckEnv ==
    /\ hpc = "env"
    /\ IF handler # "part_001a" /\ ~Truthy(env.OPENAI_API_KEY)
       THEN /\ responses' = Sent(500, ErrorBody("Missing OPENAI_API_KEY"), headers)
            /\ hpc' = "done"
       ELSE IF handler # "part_001a" /\ ~Truthy(env.OPENAI_PROMPT_ID)
            THEN /\ responses' = Sent(500, ErrorBody("Missing OPENAI_PROMPT_ID"), headers)
                 /\ hpc' = "done"
            ELSE hpc' = "body" /\ UNCHANGED responses
    /\ UNCHANGED <<handler, req, env, body, headers, fetched, r>>
    /\ UNCHANGED vars
    /\ UNCHANGED submitVars

ParseBody ==
    /\ hpc = "body"
    /\ body' = ParsedBody(handler, req)
    /\ hpc' = "address"
    /\ UNCHANGED <<handler, req, env, headers, fetched, r, responses>>
    /\ UNCHANGED vars
    /\ UNCHANGED submitVars

\* const { address, purchasePrice, overrides } = ... and the test of address.
\* Destructuring null and String(address) throw outside the try block: the
\* invocation ends without a response.
CheckAddress ==
    /\ hpc = "address"
    /\ IF \/ IsNullish(Destructured(handler, body))
          \/ AddressTestThrows(handler, Prop(Destructured(handler, body), "address"))
       THEN hpc' = "crashed" /\ UNCHANGED responses
       ELSE IF AddressRejected(handler, Prop(Destructured(handler, body), "address"))
            THEN /\ responses' = Sent(400, ErrorBody("address is required"), headers)
                 /\ hpc' = "done"
            ELSE hpc' = "fetch" /\ UNCHANGED responses
    /\ UNCHANGED <<handler, req, env, body, headers, fetched, r>>
    /\ UNCHANGED vars
    /\ UNCHANGED submitVars

\* The three lines that build userInput, which are outside the try block,
\* then await fetch("https://api.openai.com/v1/responses", ...)
Fetch ==
    /\ hpc = "fetch"
    /\ IF userInputThrows(Destructured(handler, body))
       THEN hpc' = "crashed" /\ UNCHANGED fetched
       ELSE /\ fetched' = Append(fetched,
                              RequestBody(handler, env, Destructured(handler, body)))
            /\ hpc' = "awaiting"
    /\ UNCHANGED <<handler, req, env, body, headers, r, responses>>
    /\ UNCHANGED vars
    /\ UNCHANGED submitVars

\* The generation service answers, or the fetch or r.json() throws.
UpstreamReplies ==
    /\ hpc = "awaiting"
    /\ r' \in Replies
    /\ hpc' = "replied"
    /\ UNCHANGED <<handler, req, env, body, headers, fetched, responses>>
    /\ UNCHANGED vars
    /\ UNCHANGED submitVars

\* The value answered with 200, "No JSON returned" when there is none.
Answer(h, reply) ==
    LET parsed == IF h = "part_001a" THEN SelectParsedOrText(reply.data)
                  ELSE SelectParsed(reply.data)
    IN  IF ~Truthy(parsed)
        THEN [status |-> 500,
              body |-> [k |-> "obj", error |-> Str("No JSON returned"),
                        raw |-> IF h = "part_001a" THEN reply.data
                                ELSE redactLarge(reply.data, reply.size)]]
        ELSE [status |-> 200, body |-> parsed]

\* HandleReply with the report looked for before the test of r.ok.
HandleReplyExtractFirst ==
    /\ hpc = "replied"
    /\ responses' =
          CASE r.kind = "thrown" ->
                 Sent(500, [k |-> "obj", error |-> OrElse(r.message, Str("Error"))], headers)
            [] r.kind = "notok" /\ Answer(handler, r).status # 200 ->
                 Sent(r.status, r.data, headers)
            [] OTHER -> Sent(Answer(handler, r).status, Answer(handler, r).body, headers)
    /\ hpc' = "done"
    /\ UNCHANGED <<handler, req, env, body, headers, fetched, r>>
    /\ UNCHANGED vars
    /\ UNCHANGED submitVars

\* From `const data = await r.json()` to the end of the try and its catch.
HandleReply ==
    /\ hpc = "replied"
    /\ responses' =
          CASE r.kind = "thrown" ->
                 Sent(500, [k |-> "obj", error |-> OrElse(r.message, Str("Error"))], headers)
            [] r.kind = "notok" -> Sent(r.status, r.data, headers)
            [] OTHER -> Sent(Answer(handler, r).status, Answer(handler, r).body, headers)
    /\ hpc' = "done"
    /\ UNCHANGED <<handler, req, env, body, headers, fetched, r>>
    /\ UNCHANGED vars
    /\ UNCHANGED submitVars

HandlerNext ==
    \/ Preflight \/ CheckEnv \/ ParseBody \/ CheckAddress
    \/ Fetch \/ UpstreamReplies \/ HandleReply

HandlerSpec == HandlerInit /\ [][HandlerNext]_<<vars, handlerVars, submitVars>>

----------------------------------------------------------------------------
(* The page's form and handleSubmit (src/app/page.jsx, lines 13-39 and the *)
(* form of lines 47-69).                                                   *)

\* What the user may have typed into the three inputs.
Forms ==
    {[address |-> a, price |-> p, overrides |-> o] :
        a \in {" 12 Elm St "}, p \in {"", "$500,000"}, o \in {"", " cash "}}

\* Number((price || "").toString().replace(/[$,\s]/g, "")) || undefined
numericPrice(price) ==
    CASE price = "$500,000" -> Num(500000)
      [] OTHER -> Undef

\* { address: address.trim(), purchasePrice: numericPrice,
\*   overrides: overrides.trim() || undefined }
payload(f) ==
    Body(Str(Trim(f.address)), numericPrice(f.price),
         IF Trim(f.overrides) = "" THEN Undef ELSE Str(Trim(f.overrides)))

\* The bodies of the OK responses: three reports, one whose units hold a
\* null (mapFromSchema throws on it), and null.
PageBodies ==
    {MkReport(Typical, Undef), MkReport(Distressed, Undef),
     MkReport([l \in Leaves |-> Undef], Undef),
     MkReport([Typical EXCEPT !.units = Arr(<<Null>>)], Undef),
     Null}

\* The bodies of the non-OK responses, with and without an error property.
PageErrorBodies ==
    {ErrorBody("address is required"),
     [k |-> "obj", error |-> [k |-> "obj", message |-> Str("upstream said no")]],
     [k |-> "obj", error |-> Arr(<<>>)],
     EmptyObject, Null}

\* res after the fetch and res.json(): a response with its decoded body, or
\* what either of the two threw.
PageReplies ==
    {[kind |-> "ok", status |-> 200, data |-> d] : d \in PageBodies}
    \cup {[kind |-> "notok", status |-> st, data |-> d] :
             st \in {400, 500}, d \in PageErrorBodies}
    \cup {[kind |-> "thrown", message |-> m] :
             m \in {Str("Failed to fetch"),
                    Str("Unexpected token < in JSON at position 0"), Str("")}}

\* new Error(data?.error || `API error ${res.status}`).message
ApiErrorMessage(reply) ==
    LET e == Prop(reply.data, "error")
    IN  IF Truthy(e) THEN Str(JSString(e))
        ELSE Str("API error " \o ToString(reply.status))

\* What the try block throws, as err.message; undefined when it throws
\* nothing.
Thrown(reply) ==
    CASE reply.kind = "thrown" -> reply.message
      [] reply.kind = "notok" -> ApiErrorMessage(reply)
      [] IsNullish(reply.data) -> Str("Cannot read properties of null (reading 'subject')")
      [] mapFromSchema(reply.data) = TypeError -> Str("TypeError")
      [] OTHER -> Undef

PageInit ==
    /\ HandlerIdle
    /\ SubmitIdle
    /\ pc = "form"
    /\ data = Null /\ responseJSON = Null /\ error = Str("") /\ view = Null

\* onChange of the three inputs
Type ==
    /\ form' \in Forms
    /\ form' # form
    /\ UNCHANGED <<loading, requestJSON, res>>
    /\ UNCHANGED vars
    /\ UNCHANGED handlerVars

\* handleSubmit up to the await of the fetch. The form is submitted only
\* with the required address filled in and the button enabled.
Submit ==
    /\ pc = "form"
    /\ form.address # ""
    /\ ~loading
    /\ error' = Str("")
    /\ loading' = TRUE
    /\ requestJSON' = payload(form)
    /\ pc' = "requesting"
    /\ UNCHANGED <<data, responseJSON, view, form, res>>
    /\ UNCHANGED handlerVars

\* The fetch and res.json() settle.
Respond ==
    /\ pc = "requesting"
    /\ res' \in PageReplies
    /\ pc' = "responded"
    /\ UNCHANGED <<data, responseJSON, error, view, loading, form, requestJSON>>
    /\ UNCHANGED handlerVars

\* Settle with setLoading(false) as the last statement of the try block.
SettleNoFinally ==
    /\ pc = "responded"
    /\ data' = IF res.kind = "thrown" THEN data ELSE res.data
    /\ IF Thrown(res) = Undef
       THEN /\ responseJSON' = mapFromSchema(res.data)
            /\ view' = Report(responseJSON')
            /\ loading' = FALSE
            /\ UNCHANGED error
       ELSE /\ error' = OrElse(Thrown(res), Str("Error"))
            /\ UNCHANGED <<responseJSON, view, loading>>
    /\ pc' = "form"
    /\ UNCHANGED <<form, requestJSON, res>>
    /\ UNCHANGED handlerVars

\* From `if (!res.ok)` to the end of handleSubmit, and the render that the
\* new state causes (line 83).
Settle ==
    /\ pc = "responded"
    /\ data' = IF res.kind = "thrown" THEN data ELSE res.data
    /\ IF Thrown(res) = Undef
       THEN /\ responseJSON' = mapFromSchema(res.data)
            /\ view' = Report(responseJSON')
            /\ UNCHANGED error
       ELSE /\ error' = OrElse(Thrown(res), Str("Error"))
            /\ UNCHANGED <<responseJSON, view>>
    /\ loading' = FALSE
    /\ pc' = "form"
    /\ UNCHANGED <<form, requestJSON, res>>
    /\ UNCHANGED handlerVars

PageNext == Type \/ Submit \/ Respond \/ Settle

\* The steps of Respond and of Settle, told by the position alone: each is
\* the only step of PageNext that changes pc this way, and is enabled
\* whenever pc has the first value.
Responding == pc = "requesting" /\ pc' = "responded"
Settling == pc = "responded" /\ pc' = "form"

\* The browser settles every fetch, and the continuation of handleSubmit
\* runs once it has; nothing makes the user type or submit.
PageSpec ==
    /\ PageInit
    /\ [][PageNext]_<<vars, handlerVars, submitVars>>
    /\ WF_pc(Responding)
    /\ WF_pc(Settling)

----------------------------------------------------------------------------
(* What the report said, read without going through the page's code.       *)

RawGet(sec, f) == IF sec.k = "obj" THEN sec[f] ELSE Undef

RawPurchase(f) == RawGet(data.purchase, f)
RawAssumption(f) == RawGet(data.operatingAssumptions, f)
RawFinancing(f) == RawGet(data.financing, f)
RawSnapshot(sub, f) == RawGet(RawGet(data.propertySnapshot, sub), f)

Rendered == pc = "rendered"

IsRatioOrSentinel(v) == v = Null \/ v.k = "num"

\* C1: whenever annualDebtService is 0, debtServiceCoverageRatio is the
\* undefined-ratio sentinel null, never NaN and never an infinity.
C1_DscrIsSentinel ==
    (Rendered /\ view.annualDebtService = Num(0)) => view.dscr = Null

\* C2: with a monthly rate of 0, monthlyPrincipalAndInterest is the
\* straight-line payment loanAmount / termMonths.
C2_ZeroRateStraightLine ==
    (/\ Rendered
     /\ view.r = Num(0)
     /\ view.loanAmount.k = "num" /\ view.loanAmount.n >= 0
     /\ view.n.k = "num" /\ view.n.n >= 1)
    => view.monthlyPI = Div(view.loanAmount, view.n)

\* C3: no derived ratio is NaN or an infinity; with a total acquisition cost
\* of 0 the cap rate is the sentinel, and the same for a debt service of 0.
C3_NoNaNRatios ==
    Rendered =>
        /\ IsRatioOrSentinel(view.dscr)
        /\ IsRatioOrSentinel(view.capRate)
        /\ view.totalCost = Num(0) => view.capRate = Null
        /\ view.annualDebtService = Num(0) => view.dscr = Null

\* C4: a report without closingCostPct is computed with 0.03, one without
\* pointsPct with 0.0075, along the whole path from the response to the metrics.
C4_ClosingAndPointsDefaults ==
    Rendered =>
        /\ IsNullish(RawPurchase("closingCostPct")) => view.d.closingPct = Rat(3, 100)
        /\ IsNullish(RawPurchase("pointsPct"))
              => view.d.pointsOnLoanPctOfPrice = Rat(75, 10000)

\* <<what the report says, what the calculator uses, the documented default>>
DefaultCases ==
    << <<RawAssumption("vacancyPct"), view.d.vacancyRate, Rat(5, 100)>>,
       <<RawAssumption("maintenancePctOfGrossRent"), view.d.maintPctOfGrossRent, Rat(8, 100)>>,
       <<RawAssumption("managementPctOfEGI"), view.d.mgmtPctOfEGI, Rat(8, 100)>>,
       <<RawFinancing("downPaymentPct"), view.d.financing.downPct, Rat(25, 100)>>,
       <<RawFinancing("rateAnnualPct"), view.d.financing.rateAnnual, Rat(77, 1000)>>,
       <<RawFinancing("termYears"), view.d.financing.termMonths, Num(360)>> >>

DollarCases ==
    << <<RawSnapshot("taxes", "annual"), view.d.taxesAnnual>>,
       <<RawSnapshot("insurance", "dp3Annual"), view.d.insuranceAnnual>>,
       <<RawSnapshot("hoa", "annual"), view.d.hoaAnnual>>,
       <<RawAssumption("utilitiesLandlordPaidAnnual"), view.d.utilsAnnualLL>>,
       <<RawAssumption("otherOpExAnnual"), view.d.otherAnnual>> >>

ScalarInputs ==
    {"purchasePrice", "closingPct", "pointsOnLoanPctOfPrice", "vacancyRate",
     "maintPctOfGrossRent", "mgmtPctOfEGI", "insuranceAnnual", "taxesAnnual",
     "otherAnnual", "hoaAnnual", "utilsAnnualLL"}

FinancingInputs == {"downPct", "rateAnnual", "termMonths"}

\* C5: each of vacancyRate, maintenancePctOfGrossRent, managementPctOfEGI,
\* downPaymentPct, annualRatePct and termMonths that the report leaves out
\* or null takes its default 0.05, 0.08, 0.08, 0.25, 0.077, 360; each annual
\* dollar expense defaults to 0; what is present is left as it is.
C5_DefaultsFill ==
    Rendered =>
        /\ \A i \in 1..Len(DefaultCases) :
              IsNullish(DefaultCases[i][1]) => DefaultCases[i][2] = DefaultCases[i][3]
        /\ \A i \in 1..Len(DollarCases) :
              IF IsNullish(DollarCases[i][1])
              THEN DollarCases[i][2] = Num(0)
              ELSE DollarCases[i][2] = DollarCases[i][1]
        /\ \A f \in ScalarInputs :
              ~IsNullish(responseJSON[f]) => view.d[f] = responseJSON[f]
        /\ \A f \in FinancingInputs :
              ~IsNullish(responseJSON.financing[f])
                 => view.d.financing[f] = responseJSON.financing[f]

C5_Witness ==
    /\ Rendered
    /\ data.financing.k = "obj"
    /\ data.financing.termYears = Null
    /\ data.financing.rateAnnualPct = Num(6)
    /\ view.d.financing.termMonths = Num(360)

\* <<a whole-number percent of the report, the calculator's input for it>>
PercentCases ==
    << <<RawAssumption("vacancyPct"), view.d.vacancyRate>>,
       <<RawAssumption("maintenancePctOfGrossRent"), view.d.maintPctOfGrossRent>>,
       <<RawAssumption("managementPctOfEGI"), view.d.mgmtPctOfEGI>>,
       <<RawFinancing("downPaymentPct"), view.d.financing.downPct>>,
       <<RawFinancing("rateAnnualPct"), view.d.financing.rateAnnual>>,
       <<RawPurchase("closingCostPct"), view.d.closingPct>>,
       <<RawPurchase("pointsPct"), view.d.pointsOnLoanPctOfPrice>> >>

\* C6: every percentage of the report reaches the arithmetic as a fraction,
\* the report's whole-number percent divided by 100.
C6_PercentsAreFractions ==
    Rendered =>
        \A i \in 1..Len(PercentCases) :
            PercentCases[i][1].k = "num"
               => PercentCases[i][2] = Div(PercentCases[i][1], Num(100))

\* Every element of the report's lists is an object.
EntriesAreObjects(x) ==
    /\ IsArray(x.units) => \A i \in 1..Len(x.units.items) : x.units.items[i].k = "obj"
    /\ IsArray(x.rentComps)
          => \A i \in 1..Len(x.rentComps.items) : x.rentComps.items[i].k = "obj"

\* C7: whatever sections and properties of the report are missing or null,
\* mapFromSchema and withDefaults complete without raising and every numeric
\* input of the calculator is a number.
C7_NormalizationTotal ==
    (pc # "received" /\ EntriesAreObjects(data)) =>
        /\ error = Str("")
        /\ responseJSON.k = "obj"
        /\ Rendered =>
              /\ \A f \in ScalarInputs : IsFinite(view.d[f])
              /\ \A f \in FinancingInputs : IsFinite(view.d.financing[f])
              /\ \A i \in 1..Len(view.d.units.items) : IsFinite(view.d.units.items[i].rent)

C7_Witness ==
    /\ Rendered
    /\ data = MkReport([[l \in Leaves |-> Null]
                           EXCEPT !.units = Arr(<<UnitEntry("Unit 3", Null)>>)], Null)

\* C8: an empty or missing units list becomes exactly one unit "Unit A" with
\* rent 0, so that the gross scheduled rent is 0; a non-empty list keeps its
\* units, in number and in order, and no unit is added.
C8_SyntheticUnit ==
    Rendered =>
        IF IsArray(data.units) /\ Len(data.units.items) > 0
        THEN /\ Len(view.d.units.items) = Len(data.units.items)
             /\ \A i \in 1..Len(data.units.items) :
                   /\ view.d.units.items[i].name = data.units.items[i].name
                   /\ view.d.units.items[i].rent =
                         (IF IsNullish(data.units.items[i].modeledRentMonthly)
                          THEN Num(0) ELSE data.units.items[i].modeledRentMonthly)
        ELSE /\ view.d.units.items = <<[k |-> "obj", name |-> Str("Unit A"), rent |-> Num(0)]>>
             /\ view.annualGSR = Num(0)

C8_Witness ==
    /\ Rendered
    /\ data.units = Arr(<<>>)
    /\ Len(view.d.units.items) = 1

\* The sum of the monthly rents the report gives, a missing rent counting 0.
RECURSIVE RawRentSum(_)
RawRentSum(items) ==
    IF items = <<>> THEN Num(0)
    ELSE Add(IF Head(items).modeledRentMonthly.k = "num"
             THEN Head(items).modeledRentMonthly ELSE Num(0),
             RawRentSum(Tail(items)))

\* C9: grossScheduledRentAnnual is 12 times the sum of the units' monthly
\* rents, a unit without rent contributing 0; one unit at 2000 gives 24000.
C9_GrossScheduledRent ==
    Rendered =>
        /\ IsArray(data.units)
              => view.annualGSR = Mul(Num(12), RawRentSum(data.units.items))
        /\ data.units = Arr(<<UnitEntry("Unit 2", Num(2000))>>)
              => view.annualGSR = Num(24000)

C9_Witness ==
    /\ Rendered
    /\ data.units = Arr(<<UnitEntry("Unit 2", Num(2000))>>)
    /\ data.purchase = Undef
    /\ view.annualGSR = Num(24000)

\* C10: effectiveGrossIncomeAnnual is grossScheduledRentAnnual x (1 - vacancyRate);
\* one unit at 1500 with the default vacancy gives 18000 and 17100.
C10_EffectiveGrossIncome ==
    Rendered =>
        /\ view.egi = Mul(view.annualGSR, Sub(Num(1), view.d.vacancyRate))
        /\ (/\ data.units = Arr(<<UnitEntry("Unit 1", Num(1500))>>)
            /\ IsNullish(RawAssumption("vacancyPct")))
              => view.annualGSR = Num(18000) /\ view.egi = Num(17100)

C10_Witness ==
    /\ Rendered
    /\ data.units = Arr(<<UnitEntry("Unit 1", Num(1500))>>)
    /\ IsNullish(RawAssumption("vacancyPct"))
    /\ view.egi = Num(17100)

\* The calculator's input with another vacancy rate.
WithVacancy(d, rate) == [d EXCEPT !.vacancyRate = rate]

\* C11: maintenance is a share of the gross scheduled rent and management a
\* share of the effective gross income: between a vacancy rate of 0 and one
\* of 0.5, all else equal, maintenance is the same and management halves.
C11_MaintenanceAndManagementBases ==
    Rendered =>
        /\ view.maint = Mul(view.annualGSR, view.d.maintPctOfGrossRent)
        /\ view.mgmt = Mul(view.egi, view.d.mgmtPctOfEGI)
        /\ maint(WithVacancy(view.d, Num(0))) = maint(WithVacancy(view.d, Rat(1, 2)))
        /\ mgmt(WithVacancy(view.d, Num(0)))
              = Mul(Num(2), mgmt(WithVacancy(view.d, Rat(1, 2))))

C11_Witness ==
    /\ Rendered
    /\ view.d.vacancyRate = Rat(1, 2)
    /\ view.annualGSR = Num(18000)
    /\ view.maint = Num(1440)
    /\ view.mgmt = Num(900)
    /\ mgmt(WithVacancy(view.d, Num(0))) = Num(1800)

\* The seven expense terms, added up.
SevenExpenses ==
    Add(Add(Add(Add(Add(Add(view.d.taxesAnnual, view.d.insuranceAnnual), view.d.hoaAnnual),
                    view.maint), view.mgmt), view.d.utilsAnnualLL), view.d.otherAnnual)

IsNegative(v) == v.k = "num" /\ v.n < 0

\* C12: netOperatingIncomeAnnual is effectiveGrossIncomeAnnual minus the seven
\* expense terms and is never clamped; when expenses exceed income the NOI and
\* the annual cash flow NOI - annualDebtService are negative numbers, and both
\* are rendered as values.
C12_NegativeResultsRender ==
    Rendered =>
        /\ view.noi = Sub(view.egi, SevenExpenses)
        /\ view.cashFlow = Sub(view.noi, view.annualDebtService)
        /\ IsNegative(view.noi) =>
              /\ IsNegative(view.cashFlow)
              /\ view.noiShown = [k |-> "usd", amount |-> RoundWhole(view.noi)]
              /\ view.cashFlowShown = [k |-> "usd", amount |-> RoundWhole(view.cashFlow)]

\* C13: the calculator's result contains cashOnCashRoiPct, which is
\* annualCashFlow / cashInvested when cashInvested is not 0 and the
\* undefined-ratio sentinel null when it is.
C13_CashOnCashRoi ==
    Rendered =>
        /\ view.cashInvested =
              Add(Add(Mul(view.d.purchasePrice, view.d.financing.downPct),
                      view.closingCost), view.pointsCost)
        /\ "cashOnCashRoiPct" \in DOMAIN view
        /\ view.cashOnCashRoiPct =
              (IF view.cashInvested = Num(0) THEN Null
               ELSE Div(view.cashFlow, view.cashInvested))

\* C14: normalizing and computing never mutate their input: the report
\* received from the service stays as it was through mapFromSchema,
\* withDefaults and the metrics, and so does the mapped object once it is
\* handed to the calculator, units and unit entries included.
C14_InputsNotMutated ==
    [][/\ data' = data
       /\ pc = "settled" => responseJSON' = responseJSON]_vars

C14_Witness ==
    /\ Rendered
    /\ data.units = Arr(<<UnitEntry("Unit 3", Null)>>)
    /\ data.financing = Null
    /\ responseJSON.units.items[1].rent = Num(0)
    /\ responseJSON.financing.termMonths = Num(360)
    /\ view.d.units = responseJSON.units

AtLeast(v, i) == v.k = "num" /\ v.n >= i * v.d
AtMost(v, i) == v.k = "num" /\ v.n <= i * v.d

\* C15: for every report that conforms to the report schema the calculator's
\* inputs satisfy the InvestmentInputs constraints: downPaymentPct in [0,1],
\* so that loanAmount is not negative, annualRatePct >= 0, termMonths an
\* integer >= 1, and at least one unit.
C15_ConformingReportsGiveValidInputs ==
    (Rendered /\ Conforms(data)) =>
        /\ AtLeast(view.d.financing.downPct, 0) /\ AtMost(view.d.financing.downPct, 1)
        /\ AtLeast(view.loanAmount, 0)
        /\ AtLeast(view.d.financing.rateAnnual, 0)
        /\ AtLeast(view.d.financing.termMonths, 1) /\ view.d.financing.termMonths.d = 1
        /\ Len(view.d.units.items) >= 1

\* The schema a request to the generation service carries, undefined when
\* it carries none.
SentSchema(request) ==
    IF "text" \notin DOMAIN request THEN Undef
    ELSE IF "schema" \in DOMAIN request.text.format
         THEN request.text.format.schema
         ELSE request.text.format.json_schema.schema

\* The node a JSON pointer names from the root, undefined when there is none.
RECURSIVE Lookup(_, _)
Lookup(node, path) ==
    IF path = <<>> THEN node
    ELSE IF Head(path) \in DOMAIN node THEN Lookup(node[Head(path)], Tail(path))
         ELSE Undef

\* Every object-typed node below `node` forbids additional properties, and
\* every reference below it resolves, from the root, to such a node.
RECURSIVE ClosedShape(_, _)
ClosedShape(root, node) ==
    IF "ref" \in DOMAIN node
    THEN /\ Lookup(root, node.ref) # Undef
         /\ ClosedShape(root, Lookup(root, node.ref))
    ELSE /\ ("type" \in DOMAIN node /\ "object" \in node.type) =>
               /\ "additionalProperties" \in DOMAIN node
               /\ node.additionalProperties = FALSE
         /\ "properties" \in DOMAIN node =>
               \A p \in DOMAIN node.properties : ClosedShape(root, node.properties[p])
         /\ "items" \in DOMAIN node => ClosedShape(root, node.items)

TopLevelKeys ==
    {"version", "reportMeta", "subject", "purchase", "propertySnapshot", "units",
     "rents", "rentComps", "operatingAssumptions", "financing", "totals",
     "sensitivity", "negotiation", "glossary"}

\* C16: in the report schema sent to the generation service every object-typed
\* node at every depth forbids additional properties, the top-level object
\* requires exactly the 14 keys, and every node referenced for units,
\* rentComps and the five sensitivity scenarios resolves to a definition of
\* that closed shape.
C16_SentSchemaIsClosed ==
    \A i \in 1..Len(fetched) :
        SentSchema(fetched[i]) # Undef =>
            /\ SentSchema(fetched[i]).required = TopLevelKeys
            /\ ClosedShape(SentSchema(fetched[i]), SentSchema(fetched[i]))

\* C17: every request the proxy sends to the generation service carries the
\* report schema, in every handler path, so that a 200 answer to a POST
\* always comes from a generation constrained by the schema.
C17_EveryRequestCarriesSchema ==
    /\ \A i \in 1..Len(fetched) : SentSchema(fetched[i]) # Undef
    /\ \A j \in 1..Len(responses) :
          (responses[j].status = 200 /\ req.method = "POST") =>
              /\ fetched # <<>>
              /\ \A i \in 1..Len(fetched) : SentSchema(fetched[i]) # Undef

\* |v - target| <= tolerance, for finite numbers.
Within(v, target, tolerance) ==
    /\ v.k = "num"
    /\ AtLeast(Sub(Sub(v, target), Neg(tolerance)), 0)
    /\ AtMost(Sub(Sub(v, target), tolerance), 0)

\* The input of the amortization example: 375000 lent at 0.077 a year over
\* 360 months.
AmortizationExample ==
    /\ Rendered
    /\ view.loanAmount = Num(375000)
    /\ view.d.financing.rateAnnual = Rat(77, 1000)
    /\ view.n = Num(360)

\* C18: for loanAmount 375000, annualRatePct 0.077 and termMonths 360 the
\* amortizing payment is within 0.01 of 2676.45.
C18_AmortizationExample ==
    AmortizationExample => Within(view.monthlyPI, Rat(267645, 100), Rat(1, 100))

\* C18, amended: the payment for that input is within 0.01 of 2673.60.
C18_AmortizationExampleAmended ==
    AmortizationExample =>
        /\ view.r = Rat(77, 12000)
        /\ Within(view.monthlyPI, Rat(267360, 100), Rat(1, 100))

C18_Witness ==
    /\ AmortizationExample
    /\ view.d.purchasePrice = Num(500000)
    /\ Within(view.monthlyPI, Rat(267360, 100), Rat(1, 200))

\* The handlers that test the environment.
EnvCheckedHandlers == {"generate", "part_000", "part_001b"}

\* The object the request's body stands for: a missing body and one that is
\* not the JSON text of an object count as the empty object.
ClaimedBody(rq) ==
    LET v == IF rq.body.k = "str" THEN JSONParse(rq.body.s)
             ELSE IF rq.body.k = "undefined"
                  THEN (IF rq.raw = "" THEN EmptyObject ELSE JSONParse(rq.raw))
                  ELSE rq.body
    IN  IF v.k = "obj" THEN v ELSE EmptyObject

NonBlankString(a) == a.k = "str" /\ Trim(a.s) # ""

\* The answer of the first check that fails, in the order method,
\* environment, address; "pass" when none fails.
Verdict ==
    IF req.method = "OPTIONS" THEN [status |-> 200, body |-> Undef]
    ELSE IF req.method # "POST" THEN [status |-> 405, body |-> ErrorBody("Only POST")]
    ELSE IF ~Truthy(env.OPENAI_API_KEY)
         THEN [status |-> 500, body |-> ErrorBody("Missing OPENAI_API_KEY")]
    ELSE IF ~Truthy(env.OPENAI_PROMPT_ID)
         THEN [status |-> 500, body |-> ErrorBody("Missing OPENAI_PROMPT_ID")]
    ELSE IF ~NonBlankString(Prop(ClaimedBody(req), "address"))
         THEN [status |-> 400, body |-> ErrorBody("address is required")]
    ELSE [status |-> 0, body |-> Str("pass")]

\* C19: the proxy calls the generation service only after all checks have
\* passed, in this order: the method is POST (OPTIONS answers 200, any other
\* method 405), both OPENAI_API_KEY and OPENAI_PROMPT_ID are set (else 500),
\* and the body's address is a non-blank string (else 400, also for a missing
\* or malformed body, which counts as an empty object); a rejected request
\* gets the answer of its first failing check and never causes an upstream
\* call.
C19_ChecksBeforeUpstream ==
    handler \in EnvCheckedHandlers =>
        /\ Len(fetched) <= 1
        /\ Verdict.status # 0 =>
              /\ fetched = <<>>
              /\ hpc \notin {"fetch", "awaiting", "replied", "crashed"}
              /\ hpc = "done" =>
                    /\ Len(responses) = 1
                    /\ responses[1].status = Verdict.status
                    /\ responses[1].body = Verdict.body
        /\ (Verdict.status = 0 /\ hpc = "done") => Len(fetched) = 1

\* The handlers with the three sources of a report.
ThreeSourceHandlers == {"generate", "part_000", "part_001b"}

\* The handler has dealt with an OK response of the generation service.
AnsweredOK == hpc = "done" /\ fetched # <<>> /\ r.kind = "ok"

\* What each source of an upstream body yields; undefined stands for nothing.
FromOutputParsed(d) ==
    IF Truthy(Prop(d, "output_parsed")) THEN Prop(d, "output_parsed") ELSE Undef

ParsedIfTruthy(text) ==
    IF text.k = "str" /\ text.s # "" /\ JSONParse(text.s) # SyntaxError
       /\ Truthy(JSONParse(text.s))
    THEN JSONParse(text.s) ELSE Undef

FromOutputText(d) == ParsedIfTruthy(Prop(d, "output_text"))

FromOutput(d) ==
    IF ~IsArray(Prop(d, "output")) THEN Undef
    ELSE LET items == FlatContent(Prop(d, "output").items)
             texts == {i \in 1..Len(items) :
                          /\ Prop(items[i], "type") \in {Str("output_text"), Str("text")}
                          /\ Prop(items[i], "text").k = "str"}
         IN  IF texts = {} THEN Undef
             ELSE ParsedIfTruthy(
                      items[CHOOSE i \in texts : \A j \in texts : i <= j].text)

\* C20: on an OK upstream response the proxy selects the report by strict
\* priority: output_parsed if truthy, else the parse of output_text if that is
\* a string parsing to a truthy value, else the parse of the first
\* output[].content[] item of type output_text or text with a string text.
\* It answers 200 with exactly that value, and 500 "No JSON returned" exactly
\* when all three yield nothing; text that does not parse never raises.
C20_ReportSelection ==
    (handler \in ThreeSourceHandlers /\ AnsweredOK) =>
        LET selected ==
                IF FromOutputParsed(r.data) # Undef THEN FromOutputParsed(r.data)
                ELSE IF FromOutputText(r.data) # Undef THEN FromOutputText(r.data)
                ELSE FromOutput(r.data)
        IN  /\ Len(responses) = 1
            /\ IF selected # Undef
               THEN responses[1].status = 200 /\ responses[1].body = selected
               ELSE /\ responses[1].status = 500
                    /\ responses[1].body.error = Str("No JSON returned")

C20_Witness ==
    /\ handler = "generate" /\ AnsweredOK
    /\ r.data.output_parsed = Null
    /\ r.data.output_text = Str("not json")
    /\ IsArray(r.data.output) /\ Len(r.data.output.items) = 2
    /\ responses = <<[status |-> 200, body |-> ReportFrom("output2"), headers |-> CorsHeaders]>>

----------------------------------------------------------------------------
(* Errors of the generation service.                                       *)

\* The handler has dealt with the outcome of its call of the service.
Replied == hpc = "done" /\ fetched # <<>>

\* C21: when the generation service answers with a non-OK status, the handler
\* responds with that status and the upstream body unchanged, whatever that
\* body holds (no report is taken out of it); when the fetch or the decoding
\* of the body throws, it responds 500 with an object whose only property is
\* a non-empty error message.
C21_UpstreamErrorsBubbleUp ==
    Replied =>
        /\ r.kind = "notok" =>
              /\ Len(responses) = 1
              /\ responses[1].status = r.status
              /\ responses[1].body = r.data
        /\ r.kind = "thrown" =>
              /\ Len(responses) = 1
              /\ responses[1].status = 500
              /\ DOMAIN responses[1].body = {"k", "error"}
              /\ responses[1].body.error.k = "str"
              /\ responses[1].body.error.s # ""

C21_Witness ==
    /\ Replied /\ handler = "part_000"
    /\ r.kind = "notok" /\ r.status = 429
    /\ Truthy(Prop(r.data, "output_parsed"))
    /\ Len(responses) = 1 /\ responses[1].status = 429 /\ responses[1].body = r.data

----------------------------------------------------------------------------
(* One response per invocation.                                            *)

\* The handlers of src/api/generate.js and src/unnamed/part_000.
CitedHandlers == {"generate", "part_000"}

\* The invocation has ended: the handler returned, or it threw.
Ended == hpc \in {"done", "crashed"}

\* The statuses a response may have: the upstream status only for a
\* response of the generation service.
AllowedStatuses ==
    {200, 400, 405, 500} \cup (IF r # Null /\ "status" \in DOMAIN r THEN {r.status} ELSE {})

\* C22: every invocation of the handler, for any method, environment, body
\* and upstream outcome, ends having sent exactly one response, with status
\* 200, 400, 405, 500 or the upstream status, and with the three CORS headers
\* set on it; before the end no more than one response is sent.
C22_ExactlyOneResponse ==
    handler \in CitedHandlers =>
        /\ Len(responses) <= 1
        /\ Ended =>
              /\ Len(responses) = 1
              /\ responses[1].status \in AllowedStatuses
              /\ CorsHeaders \subseteq responses[1].headers

----------------------------------------------------------------------------
(* The page's submissions.                                                 *)

\* The request succeeded: the fetch and the decoding threw nothing, the
\* status is OK and the body can be mapped.
Succeeded(reply) ==
    /\ reply.kind = "ok"
    /\ ~IsNullish(reply.data)
    /\ ~(IsArray(reply.data.units) /\ ReadThrows(reply.data.units.items))
    /\ ~(IsArray(reply.data.rentComps) /\ ReadThrows(reply.data.rentComps.items))

\* What a step of a submission must do: its start, the request in flight,
\* its end.
SubmissionStep ==
    /\ (pc = "form" /\ pc' = "requesting") =>
          loading' /\ error' = Str("") /\ responseJSON' = responseJSON /\ view' = view
    /\ (pc = "requesting" /\ pc' = "responded") =>
          loading /\ error = Str("")
    /\ (pc = "responded" /\ pc' = "form") =>
          /\ ~loading'
          /\ IF Succeeded(res)
             THEN /\ responseJSON' = mapFromSchema(res.data)
                  /\ view' = Report(mapFromSchema(res.data))
                  /\ error' = Str("")
             ELSE /\ error'.k = "str" /\ error'.s # ""
                  /\ responseJSON' = responseJSON
                  /\ view' = view

\* C23: every form submission sets loading to true and clears the previous
\* error before the request, and ends with loading false; at the end exactly
\* one of two outcomes holds: the request succeeded and the displayed report
\* is the mapped response (error stays empty), or it failed (network error,
\* non-OK status, or an exception while mapping) and error is set while the
\* report displayed before is left as it was. Every submission does end.
C23_SubmissionOutcome ==
    /\ [][SubmissionStep]_<<vars, submitVars>>
    /\ (loading ~> ~loading)

C23_Witness ==
    /\ pc = "form" /\ ~loading
    /\ res # Null /\ res.kind = "notok" /\ res.status = 500
    /\ error = Str("[object Object]")
    /\ responseJSON = mapFromSchema(MkReport(Typical, Undef))
    /\ view = Report(responseJSON)

====
